---- MODULE Spec2Model ----
(***************************************************************************)
(* Board-value analysis of tokyodoves (src/src/analysis/board_value.rs).   *)
(*                                                                         *)
(* The Board type, its move generator and its surrounded-status test are   *)
(* not part of the analysed sources; they are represented by a move table  *)
(* `legal` over abstract board identifiers.  Everything else (BoardValue,  *)
(* NextBoardIter, the four search algorithms and the five entry points)    *)
(* is transcribed from board_value.rs.                                     *)
(***************************************************************************)
EXTENDS Integers, Sequences, FiniteSets, TLC

VARIABLES legal, pc, args, ret, stack, game

vars == <<legal, pc, args, ret, stack, game>>

\* ------------------------------------------------------------------------
\*  Bounds of the model
\* ------------------------------------------------------------------------
NBoards == 3
MaxActions == 2
MaxEdges == 4
MaxDepth == 4
ArgsMaxEdges == 2
RunMaxEdges == 2
GameMaxEdges == 2
\* Width of usize in bits, and the largest usize (usize::MAX).
UsizeBits == 4
UsizeMax == 2 ^ UsizeBits - 1

\* ------------------------------------------------------------------------
\*  Option<T>: None is the empty sequence, Some(x) a one-element sequence
\* ------------------------------------------------------------------------
None == << >>
Some(x) == << x >>

\* ------------------------------------------------------------------------
\*  Color, Judge, GameRule
\* ------------------------------------------------------------------------
Colors == {"Red", "Green"}

Toggle(player) == IF player = "Red" THEN "Green" ELSE "Red"

Judges == {"LastWins", "NextWins", "Draw"}

GameRule(judge) == [suicide_atk_judge |-> judge]

\* ------------------------------------------------------------------------
\*  The board collaborator
\* ------------------------------------------------------------------------
\* Boards of ongoing games are 1..NBoards; three further identifiers stand
\* for boards on which Red's boss, Green's boss, or both are surrounded.
Boards == 1..NBoards
RedSurrounded == NBoards + 1
GreenSurrounded == NBoards + 2
BothSurrounded == NBoards + 3
FinishedBoards == {RedSurrounded, GreenSurrounded, BothSurrounded}
AllBoards == Boards \cup FinishedBoards

SurNone == [kind |-> "None"]
OneSide(p) == [kind |-> "OneSide", player |-> p]
SurBoth == [kind |-> "Both"]

surrounded_status(board) ==
    CASE board = RedSurrounded -> OneSide("Red")
      [] board = GreenSurrounded -> OneSide("Green")
      [] board = BothSurrounded -> SurBoth
      [] OTHER -> SurNone

\* An action is identified by the board it produces.
legal_actions(board, player) == IF board \in Boards THEN legal[board] ELSE << >>

perform_unchecked_copied(board, action) == action

to_u64(board) == board

\* ------------------------------------------------------------------------
\*  BoardValue
\* ------------------------------------------------------------------------
BoardValue(opt) == [value |-> opt]

kind(v) ==
    IF v.value = None THEN "Unknown"
    ELSE IF v.value[1] = 0 THEN "Finished"
    ELSE IF v.value[1] % 2 = 0 THEN "Lose" ELSE "Win"

win(num) == IF num % 2 = 1 THEN Some(BoardValue(Some(num))) ELSE None

\* lose without the test that num is not zero.
lose_even(num) == IF num % 2 = 0 THEN Some(BoardValue(Some(num))) ELSE None

lose(num) == IF num # 0 /\ num % 2 = 0 THEN Some(BoardValue(Some(num))) ELSE None

unknown == BoardValue(None)

finished == BoardValue(Some(0))

BoardValueMAX == BoardValue(Some(1))

BoardValueMIN == BoardValue(Some(2))

is_unknown(v) == kind(v) = "Unknown"

is_finished(v) == kind(v) = "Finished"

\* The turn count is a usize: num + 1 wraps at UsizeMax in a build without
\* overflow checks and panics in a build with them (increment_overflows).
increment(v) ==
    IF v.value = None THEN v
    ELSE BoardValue(Some((v.value[1] + 1) % (UsizeMax + 1)))

increment_overflows(v) == v.value # None /\ v.value[1] + 1 > UsizeMax

try_unwrap(v) ==
    IF v.value # None /\ v.value[1] >= 1 THEN v.value ELSE None

\* Option::unwrap of try_unwrap: panics on None.
unwrap(v) ==
    LET o == try_unwrap(v)
    IN IF o = None THEN [panic |-> TRUE, num |-> 0]
       ELSE [panic |-> FALSE, num |-> o[1]]

\* try_decrement refusing Unknown instead of passing it through.
try_decrement_known(v) ==
    IF v.value = None THEN None
    ELSE IF v.value[1] = 0 THEN None
    ELSE Some(BoardValue(Some(v.value[1] - 1)))

try_decrement(v) ==
    IF v.value = None THEN Some(v)
    ELSE IF v.value[1] = 0 THEN None
    ELSE Some(BoardValue(Some(v.value[1] - 1)))

\* Ordering and Option<Ordering>
IntCmp(a, b) == IF a < b THEN "Less" ELSE IF a = b THEN "Equal" ELSE "Greater"

OrdRank(o) == CASE o = "Less" -> 0 [] o = "Equal" -> 1 [] o = "Greater" -> 2

OrdMax(a, b) == IF OrdRank(b) >= OrdRank(a) THEN b ELSE a

OrdReverse(o) == CASE o = "Less" -> "Greater" [] o = "Greater" -> "Less" [] OTHER -> o

\* The panic of unreachable!() inside a comparison, shaped like an
\* Option<Ordering> so that it can stand where one is expected.
Unreachable == << "unreachable" >>

\* None stands for the Finished arm, unreachable!().
kind_to_u8(k) ==
    CASE k = "Win" -> Some(2)
      [] k = "Unknown" -> Some(1)
      [] k = "Lose" -> Some(0)
      [] OTHER -> None

\* The comparison of kinds without the early return on Finished.
kind_partial_cmp_unguarded(a, b) ==
    IF kind_to_u8(a) = None \/ kind_to_u8(b) = None THEN Unreachable
    ELSE Some(IntCmp(kind_to_u8(a)[1], kind_to_u8(b)[1]))

kind_partial_cmp(a, b) ==
    IF a = "Finished" \/ b = "Finished"
    THEN IF a = b THEN Some("Equal") ELSE None
    ELSE IF kind_to_u8(a) = None \/ kind_to_u8(b) = None THEN Unreachable
    ELSE Some(IntCmp(kind_to_u8(a)[1], kind_to_u8(b)[1]))

\* The comparison of values with Win(n) ordered by n like Lose(n).
partial_cmp_ascending(a, b) ==
    LET left_kind == kind(a)
        right_kind == kind(b)
    IN IF left_kind # right_kind \/ left_kind \in {"Unknown", "Finished"}
       THEN kind_partial_cmp(left_kind, right_kind)
       ELSE Some(IntCmp(a.value[1], b.value[1]))

partial_cmp(a, b) ==
    LET left_kind == kind(a)
        right_kind == kind(b)
    IN IF left_kind # right_kind \/ left_kind \in {"Unknown", "Finished"}
       THEN kind_partial_cmp(left_kind, right_kind)
       ELSE IF left_kind = "Lose"
            THEN Some(IntCmp(a.value[1], b.value[1]))
            ELSE IF left_kind = "Win"
            THEN Some(IntCmp(b.value[1], a.value[1]))
            ELSE Unreachable

lt(a, b) == partial_cmp(a, b) = Some("Less")

gt(a, b) == partial_cmp(a, b) = Some("Greater")

le(a, b) == partial_cmp(a, b) \in {Some("Less"), Some("Equal")}

\* ------------------------------------------------------------------------
\*  NextBoardIter
\* ------------------------------------------------------------------------
\* NextBoardIter::new: None stands for panic!("validation error").
wins_if_both(rule) ==
    CASE rule.suicide_atk_judge = "LastWins" -> Some(TRUE)
      [] rule.suicide_atk_judge = "NextWins" -> Some(FALSE)
      [] OTHER -> None

\* The classification with both sides surrounded always won by the mover.
next_board_status_last_wins(next_board, current_player, wib) ==
    LET sur_status == surrounded_status(next_board)
    IN IF sur_status = SurBoth
          \/ (sur_status.kind = "OneSide" /\ sur_status.player # current_player)
       THEN "Win"
       ELSE IF sur_status.kind = "OneSide" /\ sur_status.player = current_player
            THEN "Lose"
            ELSE "Unknown"

next_board_status(next_board, current_player, wib) ==
    LET sur_status == surrounded_status(next_board)
        is_both == sur_status = SurBoth
    IN IF (wib /\ is_both)
          \/ (sur_status.kind = "OneSide" /\ sur_status.player # current_player)
       THEN "Win"
       ELSE IF (~wib /\ is_both)
               \/ (sur_status.kind = "OneSide" /\ sur_status.player = current_player)
            THEN "Lose"
            ELSE "Unknown"

\* The triples the iterator yields, in the order of the action container.
NextBoardIter(current_board, current_player, rule) ==
    LET acts == legal_actions(current_board, current_player)
        wib == wins_if_both(rule)[1]
    IN [i \in 1..Len(acts) |->
          LET next_board == perform_unchecked_copied(current_board, acts[i])
          IN [action |-> acts[i],
              next_board |-> next_board,
              status |-> next_board_status(next_board, current_player, wib)]]

\* ------------------------------------------------------------------------
\*  compare_board_value
\* ------------------------------------------------------------------------
RECURSIVE compare_board_value_unchecked(_, _, _, _)
RECURSIVE compare_loop(_, _, _, _, _, _)

\* The loop taking the opponent's ordering as the mover's, without reverse().
compare_loop_no_reverse(items, i, value, player, rule, cmp) ==
    IF i > Len(items) THEN cmp
    ELSE
      LET it == items[i] IN
      CASE it.status = "Win" ->
             IF value = BoardValueMAX THEN "Equal" ELSE "Greater"
        [] it.status = "Lose" ->
             compare_loop(items, i + 1, value, player, rule, cmp)
        [] OTHER ->
             IF value = BoardValueMAX
             THEN compare_loop(items, i + 1, value, player, rule, cmp)
             ELSE
               LET next_val == try_decrement(value) IN
               IF next_val = None THEN "Panic"
               ELSE
                 LET next_cmp == compare_board_value_unchecked(
                                    it.next_board, next_val[1], Toggle(player), rule)
                 IN CASE next_cmp = "Panic" -> "Panic"
                      [] next_cmp = "Less" -> "Greater"
                      [] OTHER -> compare_loop(items, i + 1, value, player, rule,
                                               OrdMax(cmp, next_cmp))

\* The for loop of compare_board_value_unchecked from item i on, with the
\* accumulated cmp.  "Panic" stands for a failed unwrap or a panic below.
compare_loop(items, i, value, player, rule, cmp) ==
    IF i > Len(items) THEN cmp
    ELSE
      LET it == items[i] IN
      CASE it.status = "Win" ->
             IF value = BoardValueMAX THEN "Equal" ELSE "Greater"
        [] it.status = "Lose" ->
             compare_loop(items, i + 1, value, player, rule, cmp)
        [] OTHER ->
             IF value = BoardValueMAX
             THEN compare_loop(items, i + 1, value, player, rule, cmp)
             ELSE
               LET next_val == try_decrement(value) IN
               IF next_val = None THEN "Panic"
               ELSE
                 LET next_cmp == compare_board_value_unchecked(
                                    it.next_board, next_val[1], Toggle(player), rule)
                 IN CASE next_cmp = "Panic" -> "Panic"
                      [] next_cmp = "Less" -> "Greater"
                      [] OTHER -> compare_loop(items, i + 1, value, player, rule,
                                               OrdMax(cmp, OrdReverse(next_cmp)))

\* compare_board_value_unchecked with cmp initialised to Equal.
compare_board_value_unchecked_eq(board, value, player, rule) ==
    IF wins_if_both(rule) = None THEN "Panic"
    ELSE compare_loop(NextBoardIter(board, player, rule), 1, value, player, rule, "Equal")

compare_board_value_unchecked(board, value, player, rule) ==
    IF wins_if_both(rule) = None THEN "Panic"
    ELSE compare_loop(NextBoardIter(board, player, rule), 1, value, player, rule, "Less")

\* ------------------------------------------------------------------------
\*  BoardValueTree
\* ------------------------------------------------------------------------
EmptyMap == << >>

\* HashMap::insert: an existing entry under the same key is replaced.
MapInsert(m, k, v) == (k :> v) @@ m

BoardValueTree_new(board, player) ==
    [board_raw |-> to_u64(board),
     player |-> player,
     value |-> BoardValue(None),
     children |-> EmptyMap]

RECURSIVE is_good_for_puzzle(_, _)
is_good_for_puzzle(tree, step) ==
    IF step = 0 THEN TRUE
    ELSE /\ Cardinality(DOMAIN tree.children) = 1
         /\ \A a \in DOMAIN tree.children :
               is_good_for_puzzle(tree.children[a], step - 1)

\* ------------------------------------------------------------------------
\*  create_checkmate_tree
\* ------------------------------------------------------------------------
TreeOk(t) == [panic |-> FALSE, tree |-> t]
TreePanic == [panic |-> TRUE]

RECURSIVE create_checkmate_tree_unchecked(_, _, _, _)
RECURSIVE checkmate_tree_loop(_, _, _, _, _, _)

\* The loop without `tree.children.clear()` when a better child is found.
checkmate_tree_loop_keep(items, i, tree, player, max_depth, rule) ==
    IF i > Len(items) THEN TreeOk(tree)
    ELSE
      LET it == items[i] IN
      CASE it.status = "Win" ->
             TreeOk([tree EXCEPT !.value = win(1)[1], !.children = EmptyMap])
        [] it.status = "Lose" ->
             checkmate_tree_loop(items, i + 1, tree, player, max_depth, rule)
        [] OTHER ->
             LET child == create_checkmate_tree_unchecked(
                             it.next_board, Toggle(player), max_depth - 1, rule)
             IN IF child.panic THEN TreePanic
                ELSE
                  LET child_value_increment == increment(child.tree.value) IN
                  IF lt(child_value_increment, tree.value)
                  THEN checkmate_tree_loop(items, i + 1, tree, player, max_depth, rule)
                  ELSE
                    LET kept == IF gt(child_value_increment, tree.value)
                                THEN [tree EXCEPT !.value = child_value_increment]
                                ELSE tree
                    IN checkmate_tree_loop(
                          items, i + 1,
                          [kept EXCEPT !.children =
                              MapInsert(kept.children, it.action, child.tree)],
                          player, max_depth, rule)

\* The loop without `tree.children.clear()` on an immediately winning action.
checkmate_tree_loop_win(items, i, tree, player, max_depth, rule) ==
    IF i > Len(items) THEN TreeOk(tree)
    ELSE
      LET it == items[i] IN
      CASE it.status = "Win" ->
             TreeOk([tree EXCEPT !.value = win(1)[1]])
        [] it.status = "Lose" ->
             checkmate_tree_loop(items, i + 1, tree, player, max_depth, rule)
        [] OTHER ->
             LET child == create_checkmate_tree_unchecked(
                             it.next_board, Toggle(player), max_depth - 1, rule)
             IN IF child.panic THEN TreePanic
                ELSE
                  LET child_value_increment == increment(child.tree.value) IN
                  IF lt(child_value_increment, tree.value)
                  THEN checkmate_tree_loop(items, i + 1, tree, player, max_depth, rule)
                  ELSE
                    LET kept == IF gt(child_value_increment, tree.value)
                                THEN [tree EXCEPT !.value = child_value_increment,
                                                  !.children = EmptyMap]
                                ELSE tree
                    IN checkmate_tree_loop(
                          items, i + 1,
                          [kept EXCEPT !.children =
                              MapInsert(kept.children, it.action, child.tree)],
                          player, max_depth, rule)

\* The for loop of create_checkmate_tree_unchecked from item i on.
checkmate_tree_loop(items, i, tree, player, max_depth, rule) ==
    IF i > Len(items) THEN TreeOk(tree)
    ELSE
      LET it == items[i] IN
      CASE it.status = "Win" ->
             TreeOk([tree EXCEPT !.value = win(1)[1], !.children = EmptyMap])
        [] it.status = "Lose" ->
             checkmate_tree_loop(items, i + 1, tree, player, max_depth, rule)
        [] OTHER ->
             LET child == create_checkmate_tree_unchecked(
                             it.next_board, Toggle(player), max_depth - 1, rule)
             IN IF child.panic THEN TreePanic
                ELSE
                  LET child_value_increment == increment(child.tree.value) IN
                  IF lt(child_value_increment, tree.value)
                  THEN checkmate_tree_loop(items, i + 1, tree, player, max_depth, rule)
                  ELSE
                    LET kept == IF gt(child_value_increment, tree.value)
                                THEN [tree EXCEPT !.value = child_value_increment,
                                                  !.children = EmptyMap]
                                ELSE tree
                    IN checkmate_tree_loop(
                          items, i + 1,
                          [kept EXCEPT !.children =
                              MapInsert(kept.children, it.action, child.tree)],
                          player, max_depth, rule)

\* The search starting from the value of a fresh node instead of
\* BoardValue::MIN.
create_checkmate_tree_unchecked_no_min(board, player, max_depth, rule) ==
    IF max_depth = 0 THEN TreeOk(BoardValueTree_new(board, player))
    ELSE IF wins_if_both(rule) = None THEN TreePanic
    ELSE checkmate_tree_loop(
            NextBoardIter(board, player, rule), 1,
            BoardValueTree_new(board, player),
            player, max_depth, rule)

create_checkmate_tree_unchecked(board, player, max_depth, rule) ==
    IF max_depth = 0 THEN TreeOk(BoardValueTree_new(board, player))
    ELSE IF wins_if_both(rule) = None THEN TreePanic
    ELSE checkmate_tree_loop(
            NextBoardIter(board, player, rule), 1,
            [BoardValueTree_new(board, player) EXCEPT !.value = BoardValueMIN],
            player, max_depth, rule)

\* ------------------------------------------------------------------------
\*  create_checkmate_tree_with_value
\* ------------------------------------------------------------------------
TreeCmp(t, c) == [panic |-> FALSE, tree |-> t, cmp |-> c]

RECURSIVE create_checkmate_tree_with_value_unchecked(_, _, _, _)
RECURSIVE with_value_loop(_, _, _, _, _, _, _)

\* The loop inserting every searched child, whatever its comparison.
with_value_loop_keep_all(items, i, tree, value, player, rule, cmp) ==
    IF i > Len(items)
    THEN IF cmp # "Equal"
         THEN TreeCmp([tree EXCEPT !.value = unknown, !.children = EmptyMap], cmp)
         ELSE TreeCmp(tree, cmp)
    ELSE
      LET it == items[i] IN
      CASE it.status = "Win" ->
             IF value = BoardValueMAX
             THEN TreeCmp([tree EXCEPT !.children = EmptyMap], "Equal")
             ELSE TreeCmp([tree EXCEPT !.value = unknown, !.children = EmptyMap],
                          "Greater")
        [] it.status = "Lose" ->
             with_value_loop(items, i + 1, tree, value, player, rule, cmp)
        [] OTHER ->
             IF value = BoardValueMAX
             THEN with_value_loop(items, i + 1, tree, value, player, rule, cmp)
             ELSE
               LET next_value == try_decrement(value) IN
               IF next_value = None THEN TreePanic
               ELSE
                 LET sub == create_checkmate_tree_with_value_unchecked(
                               it.next_board, next_value[1], Toggle(player), rule)
                 IN IF sub.panic THEN TreePanic
                    ELSE IF sub.cmp = "Less"
                    THEN TreeCmp([tree EXCEPT !.value = unknown,
                                              !.children = EmptyMap], "Greater")
                    ELSE
                      LET kept == [tree EXCEPT !.children =
                                     MapInsert(tree.children, it.action, sub.tree)]
                      IN with_value_loop(items, i + 1, kept, value, player, rule,
                                         OrdMax(cmp, OrdReverse(sub.cmp)))

\* The for loop of create_checkmate_tree_with_value_unchecked from item i on,
\* followed by the code after the loop.
with_value_loop(items, i, tree, value, player, rule, cmp) ==
    IF i > Len(items)
    THEN IF cmp # "Equal"
         THEN TreeCmp([tree EXCEPT !.value = unknown, !.children = EmptyMap], cmp)
         ELSE TreeCmp(tree, cmp)
    ELSE
      LET it == items[i] IN
      CASE it.status = "Win" ->
             IF value = BoardValueMAX
             THEN TreeCmp([tree EXCEPT !.children = EmptyMap], "Equal")
             ELSE TreeCmp([tree EXCEPT !.value = unknown, !.children = EmptyMap],
                          "Greater")
        [] it.status = "Lose" ->
             with_value_loop(items, i + 1, tree, value, player, rule, cmp)
        [] OTHER ->
             IF value = BoardValueMAX
             THEN with_value_loop(items, i + 1, tree, value, player, rule, cmp)
             ELSE
               LET next_value == try_decrement(value) IN
               IF next_value = None THEN TreePanic
               ELSE
                 LET sub == create_checkmate_tree_with_value_unchecked(
                               it.next_board, next_value[1], Toggle(player), rule)
                 IN IF sub.panic THEN TreePanic
                    ELSE IF sub.cmp = "Less"
                    THEN TreeCmp([tree EXCEPT !.value = unknown,
                                              !.children = EmptyMap], "Greater")
                    ELSE
                      LET kept == IF sub.cmp = "Equal"
                                  THEN [tree EXCEPT !.children =
                                          MapInsert(tree.children, it.action, sub.tree)]
                                  ELSE tree
                      IN with_value_loop(items, i + 1, kept, value, player, rule,
                                         OrdMax(cmp, OrdReverse(sub.cmp)))

create_checkmate_tree_with_value_unchecked(board, value, player, rule) ==
    IF wins_if_both(rule) = None THEN TreePanic
    ELSE with_value_loop(
            NextBoardIter(board, player, rule), 1,
            [BoardValueTree_new(board, player) EXCEPT !.value = value],
            value, player, rule, "Less")

\* ------------------------------------------------------------------------
\*  evaluate_board
\* ------------------------------------------------------------------------
Interval(left, right) == [left |-> left, right |-> right]

contains(interval, item) == le(interval.left, item) /\ le(item, interval.right)

single(interval) ==
    IF interval.left = interval.right THEN Some(interval.left) ELSE None

IntervalOk(iv) == [panic |-> FALSE, interval |-> iv]
IntervalPanic == [panic |-> TRUE]

RECURSIVE evaluate_loop(_, _, _, _, _)

\* The loop over `1..search_depth`, upper end excluded.
evaluate_loop_exclusive(board, player, search_depth, rule, depth) ==
    IF depth >= search_depth
    THEN LET nums == IF search_depth % 2 = 0
                     THEN << search_depth + 2, search_depth + 1 >>
                     ELSE << search_depth + 1, search_depth + 2 >>
         IN IntervalOk(Interval(BoardValue(Some(nums[1])), BoardValue(Some(nums[2]))))
    ELSE
      LET value == BoardValue(Some(depth))
          c == compare_board_value_unchecked(board, value, player, rule)
      IN CASE c = "Panic" -> IntervalPanic
           [] c = "Equal" -> IntervalOk(Interval(value, value))
           [] OTHER -> evaluate_loop(board, player, search_depth, rule, depth + 1)

\* The loop with the parity test of the final interval inverted.
evaluate_loop_parity(board, player, search_depth, rule, depth) ==
    IF depth > search_depth
    THEN LET nums == IF search_depth % 2 = 1
                     THEN << search_depth + 2, search_depth + 1 >>
                     ELSE << search_depth + 1, search_depth + 2 >>
         IN IntervalOk(Interval(BoardValue(Some(nums[1])), BoardValue(Some(nums[2]))))
    ELSE
      LET value == BoardValue(Some(depth))
          c == compare_board_value_unchecked(board, value, player, rule)
      IN CASE c = "Panic" -> IntervalPanic
           [] c = "Equal" -> IntervalOk(Interval(value, value))
           [] OTHER -> evaluate_loop(board, player, search_depth, rule, depth + 1)

\* The loop `for depth in 1..=search_depth` from `depth` on, followed by the
\* code after the loop.
evaluate_loop(board, player, search_depth, rule, depth) ==
    IF depth > search_depth
    THEN LET nums == IF search_depth % 2 = 0
                     THEN << search_depth + 2, search_depth + 1 >>
                     ELSE << search_depth + 1, search_depth + 2 >>
         IN IntervalOk(Interval(BoardValue(Some(nums[1])), BoardValue(Some(nums[2]))))
    ELSE
      LET value == BoardValue(Some(depth))
          c == compare_board_value_unchecked(board, value, player, rule)
      IN CASE c = "Panic" -> IntervalPanic
           [] c = "Equal" -> IntervalOk(Interval(value, value))
           [] OTHER -> evaluate_loop(board, player, search_depth, rule, depth + 1)

evaluate_board_unchecked(board, player, search_depth, rule) ==
    evaluate_loop(board, player, search_depth, rule, 1)

\* ------------------------------------------------------------------------
\*  find_best_actions
\* ------------------------------------------------------------------------
ActionsOk(a) == [panic |-> FALSE, actions |-> a]
ActionsPanic == [panic |-> TRUE]

RECURSIVE best_actions_loop(_, _, _, _, _, _, _)

\* The loop accepting, for a known value, every action whose board is not
\* worse for the opponent than the decremented value, instead of the actions
\* that realise the value.
best_actions_loop_loose(items, i, value_interval, value, player, rule, actions) ==
    IF i > Len(items) THEN ActionsOk(actions)
    ELSE
      LET it == items[i] IN
      CASE it.status = "Win" ->
             IF value # BoardValueMAX THEN ActionsPanic
             ELSE best_actions_loop(items, i + 1, value_interval, value, player, rule,
                                    Append(actions, it.action))
        [] it.status = "Lose" ->
             best_actions_loop(items, i + 1, value_interval, value, player, rule, actions)
        [] OTHER ->
             IF value = BoardValueMAX
             THEN best_actions_loop(items, i + 1, value_interval, value, player, rule,
                                    actions)
             ELSE
               LET next_value == try_decrement(value) IN
               IF next_value = None THEN ActionsPanic
               ELSE IF is_unknown(next_value[1])
               THEN LET bound == try_decrement(value_interval.left) IN
                    IF bound = None THEN ActionsPanic
                    ELSE
                      LET c == compare_board_value_unchecked(
                                  it.next_board, bound[1], Toggle(player), rule)
                      IN IF c = "Panic" THEN ActionsPanic
                         ELSE best_actions_loop(
                                 items, i + 1, value_interval, value, player, rule,
                                 IF c # "Greater" THEN Append(actions, it.action)
                                 ELSE actions)
               ELSE
                 LET c == compare_board_value_unchecked(
                             it.next_board, next_value[1], Toggle(player), rule)
                 IN IF c = "Panic" THEN ActionsPanic
                    ELSE best_actions_loop(
                            items, i + 1, value_interval, value, player, rule,
                            IF c # "Less" THEN Append(actions, it.action)
                            ELSE actions)

\* The for loop of find_best_actions_unchecked from item i on.
\* The loop keeping, when the value is not exact, only the actions whose
\* comparison is Equal.
best_actions_loop_strict(items, i, value_interval, value, player, rule, actions) ==
    IF i > Len(items) THEN ActionsOk(actions)
    ELSE
      LET it == items[i] IN
      CASE it.status = "Win" ->
             IF value # BoardValueMAX THEN ActionsPanic
             ELSE best_actions_loop(items, i + 1, value_interval, value, player, rule,
                                    Append(actions, it.action))
        [] it.status = "Lose" ->
             best_actions_loop(items, i + 1, value_interval, value, player, rule, actions)
        [] OTHER ->
             IF value = BoardValueMAX
             THEN best_actions_loop(items, i + 1, value_interval, value, player, rule,
                                    actions)
             ELSE
               LET next_value == try_decrement(value) IN
               IF next_value = None THEN ActionsPanic
               ELSE IF is_unknown(next_value[1])
               THEN LET bound == try_decrement(value_interval.left) IN
                    IF bound = None THEN ActionsPanic
                    ELSE
                      LET c == compare_board_value_unchecked(
                                  it.next_board, bound[1], Toggle(player), rule)
                      IN IF c = "Panic" THEN ActionsPanic
                         ELSE best_actions_loop(
                                 items, i + 1, value_interval, value, player, rule,
                                 IF c = "Equal" THEN Append(actions, it.action)
                                 ELSE actions)
               ELSE
                 LET c == compare_board_value_unchecked(
                             it.next_board, next_value[1], Toggle(player), rule)
                 IN IF c = "Panic" THEN ActionsPanic
                    ELSE best_actions_loop(
                            items, i + 1, value_interval, value, player, rule,
                            IF c = "Equal" THEN Append(actions, it.action)
                            ELSE actions)

best_actions_loop(items, i, value_interval, value, player, rule, actions) ==
    IF i > Len(items) THEN ActionsOk(actions)
    ELSE
      LET it == items[i] IN
      CASE it.status = "Win" ->
             IF value # BoardValueMAX THEN ActionsPanic
             ELSE best_actions_loop(items, i + 1, value_interval, value, player, rule,
                                    Append(actions, it.action))
        [] it.status = "Lose" ->
             best_actions_loop(items, i + 1, value_interval, value, player, rule, actions)
        [] OTHER ->
             IF value = BoardValueMAX
             THEN best_actions_loop(items, i + 1, value_interval, value, player, rule,
                                    actions)
             ELSE
               LET next_value == try_decrement(value) IN
               IF next_value = None THEN ActionsPanic
               ELSE IF is_unknown(next_value[1])
               THEN LET bound == try_decrement(value_interval.left) IN
                    IF bound = None THEN ActionsPanic
                    ELSE
                      LET c == compare_board_value_unchecked(
                                  it.next_board, bound[1], Toggle(player), rule)
                      IN IF c = "Panic" THEN ActionsPanic
                         ELSE best_actions_loop(
                                 items, i + 1, value_interval, value, player, rule,
                                 IF c # "Greater" THEN Append(actions, it.action)
                                 ELSE actions)
               ELSE
                 LET c == compare_board_value_unchecked(
                             it.next_board, next_value[1], Toggle(player), rule)
                 IN IF c = "Panic" THEN ActionsPanic
                    ELSE best_actions_loop(
                            items, i + 1, value_interval, value, player, rule,
                            IF c = "Equal" THEN Append(actions, it.action)
                            ELSE actions)

\* find_best_actions_unchecked without the early return at depth 0.
find_best_actions_unchecked_no_zero(board, player, search_depth, rule) ==
    LET ev == evaluate_board_unchecked(board, player, search_depth, rule) IN
    IF ev.panic THEN ActionsPanic
    ELSE IF wins_if_both(rule) = None THEN ActionsPanic
    ELSE
      LET value_interval == ev.interval
          s == single(value_interval)
          value == IF s = None THEN unknown ELSE s[1]
      IN best_actions_loop(NextBoardIter(board, player, rule), 1,
                           value_interval, value, player, rule, << >>)

find_best_actions_unchecked(board, player, search_depth, rule) ==
    IF search_depth = 0 THEN ActionsOk(legal_actions(board, player))
    ELSE
      LET ev == evaluate_board_unchecked(board, player, search_depth, rule) IN
      IF ev.panic THEN ActionsPanic
      ELSE IF wins_if_both(rule) = None THEN ActionsPanic
      ELSE
        LET value_interval == ev.interval
            s == single(value_interval)
            value == IF s = None THEN unknown ELSE s[1]
        IN best_actions_loop(NextBoardIter(board, player, rule), 1,
                             value_interval, value, player, rule, << >>)

\* ------------------------------------------------------------------------
\*  validate_args and results
\* ------------------------------------------------------------------------
\* validate_args without the test of the judge.
validate_args_no_judge(board, value, rule) ==
    IF surrounded_status(board) # SurNone THEN "FinishedBoardError"
    ELSE IF is_finished(value) \/ is_unknown(value) THEN "UnsupportedValueError"
    ELSE "Ok"

validate_args(board, value, rule) ==
    IF surrounded_status(board) # SurNone THEN "FinishedBoardError"
    ELSE IF is_finished(value) \/ is_unknown(value) THEN "UnsupportedValueError"
    ELSE IF rule.suicide_atk_judge \notin {"NextWins", "LastWins"} THEN "DrawJudgeError"
    ELSE "Ok"

Ok(x) == [tag |-> "Ok", val |-> x]
\* Ok(Ordering): kept apart from Ok(x) so that results of different types
\* are records over different fields.
OkOrdering(o) == [tag |-> "Ok", ordering |-> o]
Err(e) == [tag |-> "Err", err |-> e]
Panicked == [tag |-> "Panic"]

MismatchErr(o) == [tag |-> "Err", err |-> "ValueMismatchError", ord |-> o]

create_checkmate_tree(board, player, max_depth, rule) ==
    LET v == validate_args(board, BoardValueMAX, rule) IN
    IF v # "Ok" THEN Err(v)
    ELSE LET r == create_checkmate_tree_unchecked(board, player, max_depth, rule)
         IN IF r.panic THEN Panicked ELSE Ok(r.tree)

create_checkmate_tree_with_value(board, value, player, rule) ==
    LET v == validate_args(board, value, rule) IN
    IF v # "Ok" THEN Err(v)
    ELSE LET r == create_checkmate_tree_with_value_unchecked(board, value, player, rule)
         IN IF r.panic THEN Panicked
            ELSE IF r.cmp = "Equal" THEN Ok(r.tree) ELSE MismatchErr(r.cmp)

compare_board_value(board, value, player, rule) ==
    LET v == validate_args(board, value, rule) IN
    IF v # "Ok" THEN Err(v)
    ELSE LET c == compare_board_value_unchecked(board, value, player, rule)
         IN IF c = "Panic" THEN Panicked ELSE OkOrdering(c)

evaluate_board(board, player, search_depth, rule) ==
    LET v == validate_args(board, BoardValueMAX, rule) IN
    IF v # "Ok" THEN Err(v)
    ELSE LET r == evaluate_board_unchecked(board, player, search_depth, rule)
         IN IF r.panic THEN Panicked ELSE Ok(r.interval)

find_best_actions(board, player, search_depth, rule) ==
    LET v == validate_args(board, BoardValueMAX, rule) IN
    IF v # "Ok" THEN Err(v)
    ELSE LET r == find_best_actions_unchecked(board, player, search_depth, rule)
         IN IF r.panic THEN Panicked ELSE Ok(r.actions)

\* ------------------------------------------------------------------------
\*  State machine
\* ------------------------------------------------------------------------
RootBoard == 1

NoCall == [fn |-> "none"]

\* No Game has been constructed.
NoGame == [constructed |-> FALSE]

Init ==
    /\ legal = [b \in Boards |-> << >>]
    /\ pc = "build"
    /\ args = NoCall
    /\ ret = NoCall
    /\ stack = << >>
    /\ game = NoGame

Range(s) == {s[i] : i \in 1..Len(s)}

RECURSIVE SumLen(_)
SumLen(bs) ==
    IF bs = {} THEN 0
    ELSE LET b == CHOOSE x \in bs : TRUE IN Len(legal[b]) + SumLen(bs \ {b})

\* Boards that some sequence of actions from the root board produces.
Known == {RootBoard} \cup (UNION {Range(legal[b]) : b \in Boards} \cap Boards)

\* The move generator yields one more action at board b, producing board t.
\* Boards get their identifiers in the order in which they are first produced.
AddAction(b, t) ==
    /\ pc = "build"
    /\ b \in Known
    /\ t # b
    /\ t \notin Range(legal[b])
    /\ t \in Boards => t <= Cardinality(Known) + 1
    /\ Len(legal[b]) < MaxActions
    /\ SumLen(Boards) < MaxEdges
    /\ legal' = [legal EXCEPT ![b] = Append(@, t)]
    /\ UNCHANGED <<pc, args, ret, stack, game>>

Depths == 0..MaxDepth

\* Values a caller can pass: Unknown, Finished, Win(n) and Lose(n).
Values == {BoardValue(None)} \cup {BoardValue(Some(n)) : n \in 0..MaxDepth}

Rules == {GameRule(j) : j \in Judges}

CallBoards == {RootBoard} \cup FinishedBoards

\* The arguments validate_args accepts.
ValidValues == {v \in Values : kind(v) \in {"Win", "Lose"}}

ValidRules == {GameRule("LastWins"), GameRule("NextWins")}

ValidBoards == {RootBoard}

CallCreateCheckmateTree(board, player, max_depth, rule) ==
    /\ pc = "build"
    /\ args' = [fn |-> "create_checkmate_tree", board |-> board, player |-> player,
                max_depth |-> max_depth, rule |-> rule]
    /\ ret' = create_checkmate_tree(board, player, max_depth, rule)
    /\ pc' = "done"
    /\ UNCHANGED <<legal, stack, game>>

CallCreateCheckmateTreeWithValue(board, value, player, rule) ==
    /\ pc = "build"
    /\ args' = [fn |-> "create_checkmate_tree_with_value", board |-> board,
                value |-> value, player |-> player, rule |-> rule]
    /\ ret' = create_checkmate_tree_with_value(board, value, player, rule)
    /\ pc' = "done"
    /\ UNCHANGED <<legal, stack, game>>

CallCompareBoardValue(board, value, player, rule) ==
    /\ pc = "build"
    /\ args' = [fn |-> "compare_board_value", board |-> board,
                value |-> value, player |-> player, rule |-> rule]
    /\ ret' = compare_board_value(board, value, player, rule)
    /\ pc' = "done"
    /\ UNCHANGED <<legal, stack, game>>

CallEvaluateBoard(board, player, search_depth, rule) ==
    /\ pc = "build"
    /\ args' = [fn |-> "evaluate_board", board |-> board, player |-> player,
                search_depth |-> search_depth, rule |-> rule]
    /\ ret' = evaluate_board(board, player, search_depth, rule)
    /\ pc' = "done"
    /\ UNCHANGED <<legal, stack, game>>

CallFindBestActions(board, player, search_depth, rule) ==
    /\ pc = "build"
    /\ args' = [fn |-> "find_best_actions", board |-> board, player |-> player,
                search_depth |-> search_depth, rule |-> rule]
    /\ ret' = find_best_actions(board, player, search_depth, rule)
    /\ pc' = "done"
    /\ UNCHANGED <<legal, stack, game>>

\* Calls with arguments that pass validation, on every move table.
Next ==
    \/ \E b \in Boards, t \in AllBoards : AddAction(b, t)
    \/ \E board \in ValidBoards, player \in Colors, d \in Depths, rule \in ValidRules :
          CallCreateCheckmateTree(board, player, d, rule)
    \/ \E board \in ValidBoards, value \in ValidValues, player \in Colors,
          rule \in ValidRules :
          CallCreateCheckmateTreeWithValue(board, value, player, rule)
    \/ \E board \in ValidBoards, value \in ValidValues, player \in Colors,
          rule \in ValidRules :
          CallCompareBoardValue(board, value, player, rule)
    \/ \E board \in ValidBoards, player \in Colors, d \in Depths, rule \in ValidRules :
          CallEvaluateBoard(board, player, d, rule)
    \/ \E board \in ValidBoards, player \in Colors, d \in Depths, rule \in ValidRules :
          CallFindBestActions(board, player, d, rule)

Spec == Init /\ [][Next]_vars

\* Calls with arbitrary arguments, valid or not, on small move tables.
NextArgs ==
    \/ \E b \in Boards, t \in AllBoards :
          SumLen(Boards) < ArgsMaxEdges /\ AddAction(b, t)
    \/ \E board \in CallBoards, player \in Colors, d \in Depths, rule \in Rules :
          CallCreateCheckmateTree(board, player, d, rule)
    \/ \E board \in CallBoards, value \in Values, player \in Colors, rule \in Rules :
          CallCreateCheckmateTreeWithValue(board, value, player, rule)
    \/ \E board \in CallBoards, value \in Values, player \in Colors, rule \in Rules :
          CallCompareBoardValue(board, value, player, rule)
    \/ \E board \in CallBoards, player \in Colors, d \in Depths, rule \in Rules :
          CallEvaluateBoard(board, player, d, rule)
    \/ \E board \in CallBoards, player \in Colors, d \in Depths, rule \in Rules :
          CallFindBestActions(board, player, d, rule)

SpecArgs == Init /\ [][NextArgs]_vars

\* ------------------------------------------------------------------------
\*  Properties
\* ------------------------------------------------------------------------
Called(f) == pc = "done" /\ args.fn = f

\* Win(n) and Lose(n) for valid n, as the constructors build them.
WinV(n) == win(n)[1]
LoseV(n) == lose(n)[1]

RECURSIVE SameShape(_, _)
\* Same value and same child actions at every node.
SameShape(t1, t2) ==
    /\ t1.value = t2.value
    /\ DOMAIN t1.children = DOMAIN t2.children
    /\ \A a \in DOMAIN t1.children : SameShape(t1.children[a], t2.children[a])

\* The mover of `board` has no action that does not lose at once.
NoEscape(board, player, rule) ==
    LET items == NextBoardIter(board, player, rule)
    IN \A i \in 1..Len(items) : items[i].status = "Lose"

\* C1: for arguments accepted by validation, create_checkmate_tree_with_value
\* returns Ok exactly when compare_board_value returns Ok(Equal), and otherwise
\* returns ValueMismatchError(o) with o the Greater or Less that
\* compare_board_value returns for the same arguments.
C1_SameVerdict ==
    Called("create_checkmate_tree_with_value") =>
        LET c == compare_board_value(args.board, args.value, args.player, args.rule)
        IN /\ c.tag = "Ok"
           /\ (ret.tag = "Ok") <=> (c.ordering = "Equal")
           /\ ret.tag # "Ok" => /\ c.ordering \in {"Greater", "Less"}
                                /\ ret = MismatchErr(c.ordering)

C1_Witness ==
    /\ Called("create_checkmate_tree_with_value")
    /\ args.value = WinV(3)
    /\ ret.tag = "Ok"
    /\ ret.val.children # EmptyMap

\* C2: when the root of create_checkmate_tree(board, mover, d, rule) has a
\* value v that is Win(n) or Lose(n), create_checkmate_tree_with_value(board,
\* v, mover, rule) succeeds and its root value is v.
C2_RootValueAgrees ==
    (/\ Called("create_checkmate_tree")
     /\ ret.tag = "Ok"
     /\ kind(ret.val.value) \in {"Win", "Lose"})
    => LET w == create_checkmate_tree_with_value(
                   args.board, ret.val.value, args.player, args.rule)
       IN w.tag = "Ok" /\ w.val.value = ret.val.value

\* C3: when the root value of create_checkmate_tree at depth d is Win(n) or
\* Lose(n) with n <= d, the tree of create_checkmate_tree_with_value for that
\* value has the same child actions and node values at every node, and
\* is_good_for_puzzle(k) answers the same on both trees for every k.
C3_SameForcedLines ==
    (/\ Called("create_checkmate_tree")
     /\ ret.tag = "Ok"
     /\ kind(ret.val.value) \in {"Win", "Lose"}
     /\ ret.val.value.value[1] <= args.max_depth)
    => LET w == create_checkmate_tree_with_value(
                   args.board, ret.val.value, args.player, args.rule)
       IN /\ w.tag = "Ok"
          /\ SameShape(ret.val, w.val)
          /\ \A k \in 0..MaxDepth :
                is_good_for_puzzle(ret.val, k) <=> is_good_for_puzzle(w.val, k)

\* C4: evaluate_board returns the singleton [v, v] if and only if v is the
\* Win/Lose value with turn count n <= d for which compare_board_value returns
\* Equal; so a board that compares Equal to Win(n) evaluates to exactly Win(n)
\* at every depth d >= n.
C4_SingletonIffEqual ==
    (Called("evaluate_board") /\ ret.tag = "Ok") =>
        \A n \in 1..(MaxDepth + 2) :
            LET v == BoardValue(Some(n))
                c == compare_board_value(args.board, v, args.player, args.rule)
            IN (ret.val = Interval(v, v))
                  <=> (n <= args.search_depth /\ c = OkOrdering("Equal"))

C4_Witness ==
    /\ Called("evaluate_board")
    /\ args.search_depth = 4
    /\ ret = Ok(Interval(WinV(3), WinV(3)))

\* C5: the interval evaluate_board returns contains the root value that
\* create_checkmate_tree computes for the same board, mover, rule and depth,
\* and is the singleton of that value when it is Win(n) or Lose(n).
C5_IntervalBoundsTreeValue ==
    (Called("evaluate_board") /\ ret.tag = "Ok") =>
        LET t == create_checkmate_tree(
                    args.board, args.player, args.search_depth, args.rule)
            x == t.val.value
        IN /\ t.tag = "Ok"
           /\ contains(ret.val, x)
           /\ kind(x) \in {"Win", "Lose"} => ret.val = Interval(x, x)

\* Every board produced so far leaves either mover an action that does not
\* lose at once.
NoStuck == \A b \in Known, p \in Colors : ~NoEscape(b, p, args.rule)

\* The agreements of C2, C3 and C5 on move tables where no mover is stuck.
AgreementUnlessStuck ==
    (pc = "done" /\ NoStuck) =>
        /\ C2_RootValueAgrees
        /\ C3_SameForcedLines
        /\ C5_IntervalBoundsTreeValue

\* C6: when no depth 1..=bound makes the comparison Equal, evaluate_board
\* returns [Lose(bound+2), Win(bound+1)] for an even bound and
\* [Lose(bound+1), Win(bound+2)] for an odd one; with max_depth = 0 it returns
\* [Lose(2), Win(1)]; every interval it returns has left <= right.
C6_LoosestInterval ==
    (Called("evaluate_board") /\ ret.tag = "Ok") =>
        LET bound == args.search_depth
            unresolved ==
                \A n \in 1..bound :
                    compare_board_value(args.board, BoardValue(Some(n)),
                                        args.player, args.rule) # OkOrdering("Equal")
        IN /\ (unresolved /\ bound % 2 = 0) =>
                 ret.val = Interval(LoseV(bound + 2), WinV(bound + 1))
           /\ (unresolved /\ bound % 2 = 1) =>
                 ret.val = Interval(LoseV(bound + 1), WinV(bound + 2))
           /\ bound = 0 => ret.val = Interval(LoseV(2), WinV(1))
           /\ le(ret.val.left, ret.val.right)

C6_Witness ==
    /\ Called("evaluate_board")
    /\ args.search_depth = 3
    /\ legal[RootBoard] # << >>
    /\ ret = Ok(Interval(LoseV(4), WinV(5)))

RECURSIVE OptimalLines(_)
\* At every node each child's incremented value is the node's value.
OptimalLines(t) ==
    \A a \in DOMAIN t.children :
        /\ increment(t.children[a].value) = t.value
        /\ OptimalLines(t.children[a])

\* C7: in every tree create_checkmate_tree returns, at every node each
\* retained child's value, after increment, equals that node's value.
C7_ChildrenRealizeValue ==
    (Called("create_checkmate_tree") /\ ret.tag = "Ok") => OptimalLines(ret.val)

\* Two actions of the root were searched and only the better one was kept.
C7_Witness ==
    /\ Called("create_checkmate_tree")
    /\ ret.tag = "Ok"
    /\ LET items == NextBoardIter(args.board, args.player, args.rule)
       IN /\ Len(items) = 2
          /\ \A i \in 1..2 : items[i].status = "Unknown"
          /\ DOMAIN ret.val.children = {items[2].action}

RECURSIVE Win1Leaves(_)
\* Every node with value Win(1) is childless.
Win1Leaves(t) ==
    /\ t.value = WinV(1) => DOMAIN t.children = {}
    /\ \A a \in DOMAIN t.children : Win1Leaves(t.children[a])

\* C8: in every tree returned by create_checkmate_tree or
\* create_checkmate_tree_with_value, a node whose value is Win(1) has no
\* children, however many children were collected before the winning action.
C8_Win1IsLeaf ==
    ((Called("create_checkmate_tree") \/ Called("create_checkmate_tree_with_value"))
     /\ ret.tag = "Ok")
    => Win1Leaves(ret.val)

\* The root found its winning action after searching another action first.
C8_Witness ==
    /\ Called("create_checkmate_tree")
    /\ args.max_depth >= 2
    /\ ret.tag = "Ok"
    /\ ret.val.value = WinV(1)
    /\ LET items == NextBoardIter(args.board, args.player, args.rule)
       IN Len(items) = 2 /\ items[1].status = "Unknown" /\ items[2].status = "Win"

\* C9: for arguments accepted by validation no entry point panics (no failed
\* unwrap of try_decrement, no classifier built with the Draw judge), and in
\* find_best_actions with depth >= 1 an action with immediate outcome Win
\* implies that the evaluated value is exactly Win(1).
C9_NoPanic ==
    pc = "done" =>
        /\ ret.tag # "Panic"
        /\ (/\ args.fn = "find_best_actions"
            /\ args.search_depth >= 1
            /\ \E i \in DOMAIN NextBoardIter(args.board, args.player, args.rule) :
                  NextBoardIter(args.board, args.player, args.rule)[i].status = "Win")
           => evaluate_board(args.board, args.player, args.search_depth, args.rule)
                 = Ok(Interval(WinV(1), WinV(1)))

\* find_best_actions met a winning action after a non-winning one.
C9_Witness ==
    /\ Called("find_best_actions")
    /\ args.search_depth >= 1
    /\ ret.tag = "Ok"
    /\ LET items == NextBoardIter(args.board, args.player, args.rule)
       IN Len(items) = 2 /\ items[1].status = "Unknown" /\ items[2].status = "Win"

ValidationErrors == {"FinishedBoardError", "UnsupportedValueError", "DrawJudgeError"}

\* C10: every entry point returns a validation error when the board is
\* finished or the judge is Draw, the two value-taking entry points also when
\* the value is Unknown or Finished, and no other arguments are rejected.
C10_Validation ==
    pc = "done" =>
        LET takesValue == args.fn \in {"create_checkmate_tree_with_value",
                                       "compare_board_value"}
            invalid == \/ args.board \in FinishedBoards
                       \/ args.rule.suicide_atk_judge = "Draw"
                       \/ takesValue /\ kind(args.value) \in {"Unknown", "Finished"}
            rejected == ret.tag = "Err" /\ ret.err \in ValidationErrors
        IN invalid <=> rejected

C10_Witness ==
    /\ Called("find_best_actions")
    /\ args.board = RootBoard
    /\ legal[RootBoard] # << >>
    /\ args.rule.suicide_atk_judge = "Draw"
    /\ ret = Err("DrawJudgeError")

\* The actions find_best_actions is said to return when the value is exact.
BestActionsOf(board, player, rule, v) ==
    LET items == NextBoardIter(board, player, rule)
    IN IF v = WinV(1)
       THEN {items[i].action : i \in {k \in DOMAIN items : items[k].status = "Win"}}
       ELSE {items[i].action : i \in
               {k \in DOMAIN items :
                  /\ items[k].status = "Unknown"
                  /\ compare_board_value(items[k].next_board, try_decrement(v)[1],
                                         Toggle(player), rule) = OkOrdering("Equal")}}

\* C11: when evaluate_board at depth d >= 1 yields an exact value v,
\* find_best_actions at depth d returns exactly the immediately winning
\* actions if v = Win(1), and otherwise exactly the Unknown-outcome actions
\* whose resulting board, with the opponent to move, compares Equal to
\* decrement(v); no action is returned twice.
C11_BestActionsExact ==
    (Called("find_best_actions") /\ args.search_depth >= 1) =>
        LET ev == evaluate_board(args.board, args.player, args.search_depth, args.rule)
        IN (ev.tag = "Ok" /\ single(ev.val) # None) =>
              /\ ret.tag = "Ok"
              /\ Range(ret.val) =
                    BestActionsOf(args.board, args.player, args.rule, single(ev.val)[1])
              /\ Len(ret.val) = Cardinality(Range(ret.val))

\* Of two searched actions only one begins the 3-turn forced win.
C11_Witness ==
    /\ Called("find_best_actions")
    /\ evaluate_board(args.board, args.player, args.search_depth, args.rule)
          = Ok(Interval(WinV(3), WinV(3)))
    /\ LET items == NextBoardIter(args.board, args.player, args.rule)
       IN Len(items) = 2 /\ \A i \in 1..2 : items[i].status = "Unknown"
    /\ ret.tag = "Ok"
    /\ Len(ret.val) = 1

\* C12: find_best_actions with search depth 0 returns every legal action of
\* the mover, immediately losing ones included; with depth >= 1 it returns
\* legal actions only, none of which has the immediate outcome Lose.
C12_BestActionsAreLegal ==
    Called("find_best_actions") =>
        LET acts == legal_actions(args.board, args.player)
            items == NextBoardIter(args.board, args.player, args.rule)
        IN /\ ret.tag = "Ok"
           /\ args.search_depth = 0 => ret.val = acts
           /\ args.search_depth >= 1 =>
                 /\ Range(ret.val) \subseteq Range(acts)
                 /\ \A i \in DOMAIN items :
                       items[i].status = "Lose" => items[i].action \notin Range(ret.val)

\* A search of depth >= 1 returned an action and left out a losing one.
C12_Witness ==
    /\ Called("find_best_actions")
    /\ args.search_depth >= 1
    /\ ret.tag = "Ok"
    /\ Len(ret.val) = 1
    /\ LET items == NextBoardIter(args.board, args.player, args.rule)
       IN \E i \in DOMAIN items : items[i].status = "Lose"

\* The mover has no immediately winning action, and every action that does
\* not lose at once lets the opponent win at once.
ForcedLossInTwo(board, player, rule) ==
    LET items == NextBoardIter(board, player, rule)
    IN \A i \in DOMAIN items :
          /\ items[i].status # "Win"
          /\ items[i].status = "Unknown" =>
                LET replies == NextBoardIter(items[i].next_board, Toggle(player), rule)
                IN \E j \in DOMAIN replies : replies[j].status = "Win"

\* The actions of the mover that do not lose at once.
NonLosingActions(board, player, rule) ==
    LET items == NextBoardIter(board, player, rule)
    IN {items[i].action : i \in {k \in DOMAIN items : items[k].status # "Lose"}}

\* C13: on a board with no legal escape from a forced loss in 2 turns,
\* evaluate_board at depth >= 2 returns [Lose(2), Lose(2)], and
\* create_checkmate_tree at depth 2 yields a root with value Lose(2) whose
\* children are exactly the actions that do not lose at once.
C13_ForcedLossIsLose2 ==
    (pc = "done" /\ ForcedLossInTwo(args.board, args.player, args.rule)) =>
        /\ (args.fn = "evaluate_board" /\ args.search_depth >= 2) =>
              ret = Ok(Interval(LoseV(2), LoseV(2)))
        /\ (args.fn = "create_checkmate_tree" /\ args.max_depth = 2) =>
              /\ ret.tag = "Ok"
              /\ ret.val.value = LoseV(2)
              /\ DOMAIN ret.val.children =
                    NonLosingActions(args.board, args.player, args.rule)

\* C13 on the boards where some action of the mover does not lose at once.
ForcedLossUnlessStuck ==
    (pc = "done" /\ ~NoEscape(args.board, args.player, args.rule))
        => C13_ForcedLossIsLose2

\* A forced loss in 2 turns with an action that does not lose at once.
ForcedLossReached ==
    /\ Called("evaluate_board")
    /\ args.search_depth >= 2
    /\ ForcedLossInTwo(args.board, args.player, args.rule)
    /\ ~NoEscape(args.board, args.player, args.rule)

\* ------------------------------------------------------------------------
\*  The operations of BoardValue applied to drawn inputs
\* ------------------------------------------------------------------------
\* Every BoardValue a usize can hold: Unknown, Finished, Win(n), Lose(n).
ValueInputs == {BoardValue(None)} \cup {BoardValue(Some(n)) : n \in 0..UsizeMax}

Nums == 0..UsizeMax

InitValue ==
    /\ legal = [b \in Boards |-> << >>]
    /\ pc = "input"
    /\ args \in [fn : {"none"}, a : ValueInputs, b : ValueInputs, num : Nums]
    /\ ret = NoCall
    /\ stack = << >>
    /\ game = NoGame

OkCmp(c) == [tag |-> "Ok", cmp |-> c]
OkOpt(o) == [tag |-> "Ok", opt |-> o]
OkValue(v) == [tag |-> "Ok", value |-> v]
OkNum(n) == [tag |-> "Ok", num |-> n]

ApplyPartialCmp ==
    /\ pc = "input"
    /\ args' = [args EXCEPT !.fn = "partial_cmp"]
    /\ ret' = LET c == partial_cmp(args.a, args.b)
              IN IF c = Unreachable THEN Panicked ELSE OkCmp(c)
    /\ pc' = "done"
    /\ UNCHANGED <<legal, stack, game>>

ApplyWin ==
    /\ pc = "input"
    /\ args' = [args EXCEPT !.fn = "win"]
    /\ ret' = OkOpt(win(args.num))
    /\ pc' = "done"
    /\ UNCHANGED <<legal, stack, game>>

ApplyLose ==
    /\ pc = "input"
    /\ args' = [args EXCEPT !.fn = "lose"]
    /\ ret' = OkOpt(lose(args.num))
    /\ pc' = "done"
    /\ UNCHANGED <<legal, stack, game>>

ApplyUnwrap ==
    /\ pc = "input"
    /\ args' = [args EXCEPT !.fn = "unwrap"]
    /\ ret' = LET u == unwrap(args.a)
              IN IF u.panic THEN Panicked ELSE OkNum(u.num)
    /\ pc' = "done"
    /\ UNCHANGED <<legal, stack, game>>

\* overflow_checks: whether the build checks arithmetic overflow.
ApplyIncrement(overflow_checks) ==
    /\ pc = "input"
    /\ args' = [args EXCEPT !.fn = "increment"]
    /\ ret' = IF overflow_checks /\ increment_overflows(args.a) THEN Panicked
              ELSE OkValue(increment(args.a))
    /\ pc' = "done"
    /\ UNCHANGED <<legal, stack, game>>

ApplyTryDecrement ==
    /\ pc = "input"
    /\ args' = [args EXCEPT !.fn = "try_decrement"]
    /\ ret' = OkOpt(try_decrement(args.a))
    /\ pc' = "done"
    /\ UNCHANGED <<legal, stack, game>>

NextValue ==
    \/ ApplyPartialCmp
    \/ ApplyWin
    \/ ApplyLose
    \/ ApplyUnwrap
    \/ \E overflow_checks \in BOOLEAN : ApplyIncrement(overflow_checks)
    \/ ApplyTryDecrement

SpecValue == InitValue /\ [][NextValue]_vars

\* Turn counts of the values Win(n) and Lose(n).
WinNums == {2 * k + 1 : k \in 0..UsizeMax} \cap Nums
LoseNums == {2 * k : k \in 1..UsizeMax} \cap Nums

\* C14: under the order of BoardValue, Lose(m) < Lose(n) iff m < n,
\* Win(m) < Win(n) iff m > n, every Lose(m) < Unknown < every Win(n),
\* BoardValue::MIN = Lose(2) is the least and BoardValue::MAX = Win(1) the
\* greatest value that is not Finished, and any two values that are not
\* Finished are comparable.
C14_OrderOfValues ==
    (Called("partial_cmp") /\ args.a # finished /\ args.b # finished) =>
        LET a == args.a
            b == args.b
            Less == ret.cmp = Some("Less")
        IN /\ ret.tag = "Ok"
           /\ \A m \in LoseNums, n \in LoseNums :
                 (a = LoseV(m) /\ b = LoseV(n)) => (Less <=> m < n)
           /\ \A m \in WinNums, n \in WinNums :
                 (a = WinV(m) /\ b = WinV(n)) => (Less <=> m > n)
           /\ \A m \in LoseNums : (a = LoseV(m) /\ b = unknown) => Less
           /\ \A n \in WinNums : (a = unknown /\ b = WinV(n)) => Less
           /\ \A m \in LoseNums, n \in WinNums :
                 (a = LoseV(m) /\ b = WinV(n)) => Less
           /\ BoardValueMIN = LoseV(2) /\ BoardValueMAX = WinV(1)
           /\ a = BoardValueMIN => ret.cmp \in {Some("Less"), Some("Equal")}
           /\ b = BoardValueMAX => ret.cmp \in {Some("Less"), Some("Equal")}
           /\ ret.cmp \in {Some("Less"), Some("Equal"), Some("Greater")}
           /\ ret.cmp = Some("Equal") <=> a = b
           /\ ret.cmp = Some("Greater") <=> partial_cmp(b, a) = Some("Less")

C14_Witness ==
    /\ Called("partial_cmp")
    /\ args.a = WinV(3) /\ args.b = WinV(1)
    /\ ret = OkCmp(Some("Less"))

\* C15: Finished compared with any other value, in either order, is
\* neither less nor greater nor equal; Finished compared with itself is
\* Equal; the comparison does not panic.
C15_FinishedIncomparable ==
    (Called("partial_cmp") /\ (args.a = finished \/ args.b = finished)) =>
        /\ ret.tag = "Ok"
        /\ args.a # args.b => ret.cmp = None
        /\ args.a = args.b => ret.cmp = Some("Equal")

C15_Witness ==
    /\ Called("partial_cmp")
    /\ args.a = finished /\ args.b = WinV(1)
    /\ ret = OkCmp(None)

\* C16: win(n) returns a value iff n is odd, lose(n) iff n is even and at
\* least 2, and neither panics; a returned value has kind Win (resp. Lose),
\* equals BoardValue::from(Some(n)), and unwrap() of it gives n.
C16_ConstructorsValidate ==
    /\ Called("win") =>
          /\ ret.tag = "Ok"
          /\ ret.opt # None <=> args.num \in WinNums
          /\ ret.opt # None =>
                /\ kind(ret.opt[1]) = "Win"
                /\ ret.opt[1] = BoardValue(Some(args.num))
                /\ unwrap(ret.opt[1]) = [panic |-> FALSE, num |-> args.num]
    /\ Called("lose") =>
          /\ ret.tag = "Ok"
          /\ ret.opt # None <=> args.num \in LoseNums
          /\ ret.opt # None =>
                /\ kind(ret.opt[1]) = "Lose"
                /\ ret.opt[1] = BoardValue(Some(args.num))
                /\ unwrap(ret.opt[1]) = [panic |-> FALSE, num |-> args.num]

C16_Witness ==
    /\ Called("lose")
    /\ args.num = 4
    /\ ret = OkOpt(Some(BoardValue(Some(4))))

\* C17: for every value v that is not Finished, increment then
\* try_decrement returns v, and try_decrement then increment returns v;
\* increment steps Finished -> Win(1) -> Lose(2) -> Win(3) -> ..., adding
\* one to the turn count and flipping Win and Lose; Unknown is a fixed point
\* of both; try_decrement(Finished) is None.
C17_IncrementDecrementRoundTrip ==
    /\ (Called("increment") /\ args.a # finished) =>
          /\ ret.tag = "Ok"
          /\ try_decrement(ret.value) = Some(args.a)
    /\ (Called("increment") /\ args.a # unknown) =>
          /\ ret.tag = "Ok"
          /\ ret.value = BoardValue(Some(args.a.value[1] + 1))
          /\ kind(args.a) = "Win" => kind(ret.value) = "Lose"
          /\ kind(args.a) \in {"Lose", "Finished"} => kind(ret.value) = "Win"
    /\ (Called("increment") /\ args.a = unknown) => ret = OkValue(unknown)
    /\ (Called("try_decrement") /\ args.a # finished) =>
          /\ ret.tag = "Ok" /\ ret.opt # None
          /\ ~increment_overflows(ret.opt[1])
          /\ increment(ret.opt[1]) = args.a
    /\ (Called("try_decrement") /\ args.a = unknown) => ret = OkOpt(Some(unknown))
    /\ (Called("try_decrement") /\ args.a = finished) => ret = OkOpt(None)

\* The same for every value whose turn count is below usize::MAX.
RoundTripBelowMax ==
    (pc = "done" /\ ~increment_overflows(args.a)) => C17_IncrementDecrementRoundTrip

RoundTripReached ==
    /\ Called("increment")
    /\ args.a = WinV(3)
    /\ ret = OkValue(LoseV(4))

\* ------------------------------------------------------------------------
\*  The classifier applied to the boards of a move table
\* ------------------------------------------------------------------------
OkItems(items) == [tag |-> "Ok", items |-> items]

\* The search drains one NextBoardIter at the root board and at every board
\* of an ongoing game it descends into.
CallNextBoardIter(board, player, rule) ==
    /\ pc = "build"
    /\ args' = [fn |-> "NextBoardIter", board |-> board, player |-> player,
                rule |-> rule]
    /\ ret' = IF wins_if_both(rule) = None THEN Panicked
              ELSE OkItems(NextBoardIter(board, player, rule))
    /\ pc' = "done"
    /\ UNCHANGED <<legal, stack, game>>

NextIter ==
    \/ \E b \in Boards, t \in AllBoards : AddAction(b, t)
    \/ \E board \in Known, player \in Colors, rule \in ValidRules :
          CallNextBoardIter(board, player, rule)

SpecIter == Init /\ [][NextIter]_vars

\* C18: the classifier yields one triple (action, board after the action,
\* outcome) for each legal action of the mover, in order; the outcome is Win
\* iff only the opponent is surrounded, or both are under LastWins; Lose iff
\* only the mover is surrounded, or both are under NextWins; Unknown iff
\* nobody is surrounded.
C18_ClassifierOutcome ==
    Called("NextBoardIter") =>
        LET acts == legal_actions(args.board, args.player)
            judge == args.rule.suicide_atk_judge
            mover == args.player
            opponent == Toggle(args.player)
        IN /\ ret.tag = "Ok"
           /\ Len(ret.items) = Len(acts)
           /\ Cardinality(Range(acts)) = Len(acts)
           /\ \A i \in 1..Len(acts) :
                 LET item == ret.items[i]
                     st == surrounded_status(item.next_board)
                 IN /\ item.action = acts[i]
                    /\ item.next_board = perform_unchecked_copied(args.board, acts[i])
                    /\ item.status \in {"Win", "Lose", "Unknown"}
                    /\ item.status = "Win" <=>
                          \/ st = OneSide(opponent)
                          \/ (st = SurBoth /\ judge = "LastWins")
                    /\ item.status = "Lose" <=>
                          \/ st = OneSide(mover)
                          \/ (st = SurBoth /\ judge = "NextWins")
                    /\ item.status = "Unknown" <=> st = SurNone

C18_Witness ==
    /\ Called("NextBoardIter")
    /\ args.rule = GameRule("LastWins")
    /\ ret.tag = "Ok"
    /\ Len(ret.items) = 2
    /\ \E i \in 1..2 : /\ ret.items[i].next_board = BothSurrounded
                       /\ ret.items[i].status = "Win"
    /\ \E i \in 1..2 : ret.items[i].status = "Unknown"

\* ------------------------------------------------------------------------
\*  The searches run step by step on a call stack
\* ------------------------------------------------------------------------
\* One frame per active call of an unchecked function; the last frame is the
\* running one.  `ret` holds the value a callee has just returned.
Running == [tag |-> "Running"]
RetOrd(o) == [tag |-> "Return", ordering |-> o]
RetTree(t) == [tag |-> "Return", tree |-> t]
RetTreeCmp(t, o) == [tag |-> "Return", tree |-> t, ordering |-> o]
RetInterval(iv) == [tag |-> "Return", interval |-> iv]
RetActions(a) == [tag |-> "Return", actions |-> a]

FrameTree(board, player, max_depth) ==
    [fn |-> "create_checkmate_tree_unchecked", board |-> board, player |-> player,
     max_depth |-> max_depth, i |-> 1,
     tree |-> [BoardValueTree_new(board, player) EXCEPT !.value = BoardValueMIN]]

FrameCmp(board, value, player) ==
    [fn |-> "compare_board_value_unchecked", board |-> board, player |-> player,
     value |-> value, i |-> 1, cmp |-> "Less"]

FrameWithValue(board, value, player) ==
    [fn |-> "create_checkmate_tree_with_value_unchecked", board |-> board,
     player |-> player, value |-> value, i |-> 1, cmp |-> "Less",
     tree |-> [BoardValueTree_new(board, player) EXCEPT !.value = value]]

FrameEvaluate(board, player, search_depth) ==
    [fn |-> "evaluate_board_unchecked", board |-> board, player |-> player,
     search_depth |-> search_depth, depth |-> 1]

\* i = 0: value_interval is not computed yet.
FrameBestActions(board, player, search_depth) ==
    [fn |-> "find_best_actions_unchecked", board |-> board, player |-> player,
     search_depth |-> search_depth, i |-> 0,
     value_interval |-> Interval(unknown, unknown), actions |-> << >>]

\* What one step of the running frame does.
Continue(f) == [op |-> "continue", frame |-> f]
Recurse(f, callee) == [op |-> "call", frame |-> f, callee |-> callee]
Return(r) == [op |-> "return", result |-> r]
Unwind == [op |-> "panic"]

NextItem(f) == [f EXCEPT !.i = @ + 1]

step_create_checkmate_tree(f, r, rule) ==
    IF f.max_depth = 0 THEN Return(RetTree(BoardValueTree_new(f.board, f.player)))
    ELSE IF wins_if_both(rule) = None THEN Unwind
    ELSE
      LET items == NextBoardIter(f.board, f.player, rule) IN
      IF r.tag = "Return"
      THEN LET child == r.tree
               child_value_increment == increment(child.value)
           IN IF lt(child_value_increment, f.tree.value) THEN Continue(NextItem(f))
              ELSE
                LET kept == IF gt(child_value_increment, f.tree.value)
                            THEN [f.tree EXCEPT !.value = child_value_increment,
                                                !.children = EmptyMap]
                            ELSE f.tree
                IN Continue(NextItem(
                      [f EXCEPT !.tree = [kept EXCEPT !.children =
                           MapInsert(kept.children, items[f.i].action, child)]]))
      ELSE IF f.i > Len(items) THEN Return(RetTree(f.tree))
      ELSE
        LET it == items[f.i] IN
        CASE it.status = "Win" ->
               Return(RetTree([f.tree EXCEPT !.value = win(1)[1],
                                             !.children = EmptyMap]))
          [] it.status = "Lose" -> Continue(NextItem(f))
          [] OTHER ->
               Recurse(f, FrameTree(it.next_board, Toggle(f.player), f.max_depth - 1))

\* The step recursing with the value it was given, not the decremented one.
step_compare_board_value_same_value(f, r, rule) ==
    IF wins_if_both(rule) = None THEN Unwind
    ELSE
      LET items == NextBoardIter(f.board, f.player, rule) IN
      IF r.tag = "Return"
      THEN IF r.ordering = "Less" THEN Return(RetOrd("Greater"))
           ELSE Continue(NextItem(
                   [f EXCEPT !.cmp = OrdMax(@, OrdReverse(r.ordering))]))
      ELSE IF f.i > Len(items) THEN Return(RetOrd(f.cmp))
      ELSE
        LET it == items[f.i] IN
        CASE it.status = "Win" ->
               Return(RetOrd(IF f.value = BoardValueMAX THEN "Equal" ELSE "Greater"))
          [] it.status = "Lose" -> Continue(NextItem(f))
          [] OTHER ->
               IF f.value = BoardValueMAX THEN Continue(NextItem(f))
               ELSE
                 LET next_val == try_decrement(f.value) IN
                 IF next_val = None THEN Unwind
                 ELSE Recurse(f, FrameCmp(it.next_board, f.value, Toggle(f.player)))

\* The step answering Equal at a winning action whatever the value.
step_compare_board_value_win_equal(f, r, rule) ==
    IF wins_if_both(rule) = None THEN Unwind
    ELSE
      LET items == NextBoardIter(f.board, f.player, rule) IN
      IF r.tag = "Return"
      THEN IF r.ordering = "Less" THEN Return(RetOrd("Greater"))
           ELSE Continue(NextItem(
                   [f EXCEPT !.cmp = OrdMax(@, OrdReverse(r.ordering))]))
      ELSE IF f.i > Len(items) THEN Return(RetOrd(f.cmp))
      ELSE
        LET it == items[f.i] IN
        CASE it.status = "Win" -> Return(RetOrd("Equal"))
          [] it.status = "Lose" -> Continue(NextItem(f))
          [] OTHER ->
               IF f.value = BoardValueMAX THEN Continue(NextItem(f))
               ELSE
                 LET next_val == try_decrement(f.value) IN
                 IF next_val = None THEN Unwind
                 ELSE Recurse(f, FrameCmp(it.next_board, next_val[1], Toggle(f.player)))

step_compare_board_value(f, r, rule) ==
    IF wins_if_both(rule) = None THEN Unwind
    ELSE
      LET items == NextBoardIter(f.board, f.player, rule) IN
      IF r.tag = "Return"
      THEN IF r.ordering = "Less" THEN Return(RetOrd("Greater"))
           ELSE Continue(NextItem(
                   [f EXCEPT !.cmp = OrdMax(@, OrdReverse(r.ordering))]))
      ELSE IF f.i > Len(items) THEN Return(RetOrd(f.cmp))
      ELSE
        LET it == items[f.i] IN
        CASE it.status = "Win" ->
               Return(RetOrd(IF f.value = BoardValueMAX THEN "Equal" ELSE "Greater"))
          [] it.status = "Lose" -> Continue(NextItem(f))
          [] OTHER ->
               IF f.value = BoardValueMAX THEN Continue(NextItem(f))
               ELSE
                 LET next_val == try_decrement(f.value) IN
                 IF next_val = None THEN Unwind
                 ELSE Recurse(f, FrameCmp(it.next_board, next_val[1], Toggle(f.player)))

step_create_checkmate_tree_with_value(f, r, rule) ==
    IF wins_if_both(rule) = None THEN Unwind
    ELSE
      LET items == NextBoardIter(f.board, f.player, rule)
          cleared == [f.tree EXCEPT !.value = unknown, !.children = EmptyMap]
      IN
      IF r.tag = "Return"
      THEN IF r.ordering = "Less" THEN Return(RetTreeCmp(cleared, "Greater"))
           ELSE
             LET kept == IF r.ordering = "Equal"
                         THEN [f.tree EXCEPT !.children =
                                 MapInsert(f.tree.children, items[f.i].action, r.tree)]
                         ELSE f.tree
             IN Continue(NextItem(
                   [f EXCEPT !.tree = kept,
                             !.cmp = OrdMax(@, OrdReverse(r.ordering))]))
      ELSE IF f.i > Len(items)
      THEN IF f.cmp # "Equal" THEN Return(RetTreeCmp(cleared, f.cmp))
           ELSE Return(RetTreeCmp(f.tree, f.cmp))
      ELSE
        LET it == items[f.i] IN
        CASE it.status = "Win" ->
               IF f.value = BoardValueMAX
               THEN Return(RetTreeCmp([f.tree EXCEPT !.children = EmptyMap], "Equal"))
               ELSE Return(RetTreeCmp(cleared, "Greater"))
          [] it.status = "Lose" -> Continue(NextItem(f))
          [] OTHER ->
               IF f.value = BoardValueMAX THEN Continue(NextItem(f))
               ELSE
                 LET next_value == try_decrement(f.value) IN
                 IF next_value = None THEN Unwind
                 ELSE Recurse(f, FrameWithValue(it.next_board, next_value[1],
                                                Toggle(f.player)))

step_evaluate_board(f, r, rule) ==
    LET value == BoardValue(Some(f.depth)) IN
    IF r.tag = "Return"
    THEN IF r.ordering = "Equal" THEN Return(RetInterval(Interval(value, value)))
         ELSE Continue([f EXCEPT !.depth = @ + 1])
    ELSE IF f.depth > f.search_depth
    THEN LET nums == IF f.search_depth % 2 = 0
                     THEN << f.search_depth + 2, f.search_depth + 1 >>
                     ELSE << f.search_depth + 1, f.search_depth + 2 >>
         IN Return(RetInterval(Interval(BoardValue(Some(nums[1])),
                                        BoardValue(Some(nums[2])))))
    ELSE Recurse(f, FrameCmp(f.board, value, f.player))

step_find_best_actions(f, r, rule) ==
    IF f.search_depth = 0 THEN Return(RetActions(legal_actions(f.board, f.player)))
    ELSE IF f.i = 0
    THEN IF r.tag = "Return"
         THEN Continue([f EXCEPT !.value_interval = r.interval, !.i = 1])
         ELSE Recurse(f, FrameEvaluate(f.board, f.player, f.search_depth))
    ELSE IF wins_if_both(rule) = None THEN Unwind
    ELSE
      LET items == NextBoardIter(f.board, f.player, rule)
          s == single(f.value_interval)
          value == IF s = None THEN unknown ELSE s[1]
          next_value == try_decrement(value)
      IN
      IF r.tag = "Return"
      THEN LET keep == IF is_unknown(next_value[1]) THEN r.ordering # "Greater"
                       ELSE r.ordering = "Equal"
           IN Continue(NextItem(
                 [f EXCEPT !.actions = IF keep THEN Append(@, items[f.i].action)
                                       ELSE @]))
      ELSE IF f.i > Len(items) THEN Return(RetActions(f.actions))
      ELSE
        LET it == items[f.i] IN
        CASE it.status = "Win" ->
               IF value # BoardValueMAX THEN Unwind
               ELSE Continue(NextItem([f EXCEPT !.actions = Append(@, it.action)]))
          [] it.status = "Lose" -> Continue(NextItem(f))
          [] OTHER ->
               IF value = BoardValueMAX THEN Continue(NextItem(f))
               ELSE IF next_value = None THEN Unwind
               ELSE IF is_unknown(next_value[1])
               THEN LET bound == try_decrement(f.value_interval.left) IN
                    IF bound = None THEN Unwind
                    ELSE Recurse(f, FrameCmp(it.next_board, bound[1], Toggle(f.player)))
               ELSE Recurse(f, FrameCmp(it.next_board, next_value[1], Toggle(f.player)))

step(f, r, rule) ==
    CASE f.fn = "create_checkmate_tree_unchecked" ->
           step_create_checkmate_tree(f, r, rule)
      [] f.fn = "compare_board_value_unchecked" ->
           step_compare_board_value(f, r, rule)
      [] f.fn = "create_checkmate_tree_with_value_unchecked" ->
           step_create_checkmate_tree_with_value(f, r, rule)
      [] f.fn = "evaluate_board_unchecked" ->
           step_evaluate_board(f, r, rule)
      [] f.fn = "find_best_actions_unchecked" ->
           step_find_best_actions(f, r, rule)

\* What the entry point makes of the value its unchecked function returned.
finish(fn, r) ==
    CASE fn = "create_checkmate_tree" -> Ok(r.tree)
      [] fn = "create_checkmate_tree_with_value" ->
           IF r.ordering = "Equal" THEN Ok(r.tree) ELSE MismatchErr(r.ordering)
      [] fn = "compare_board_value" -> OkOrdering(r.ordering)
      [] fn = "evaluate_board" -> Ok(r.interval)
      [] fn = "find_best_actions" -> Ok(r.actions)

\* An entry point is entered: it validates its arguments and calls its
\* unchecked function.
Enter(a, value, frame) ==
    /\ pc = "build"
    /\ args' = a
    /\ LET v == validate_args(a.board, value, a.rule)
       IN IF v # "Ok"
          THEN pc' = "done" /\ ret' = Err(v) /\ stack' = << >>
          ELSE pc' = "run" /\ ret' = Running /\ stack' = << frame >>
    /\ UNCHANGED <<legal, game>>

RunCreateCheckmateTree(board, player, max_depth, rule) ==
    Enter([fn |-> "create_checkmate_tree", board |-> board, player |-> player,
           max_depth |-> max_depth, rule |-> rule],
          BoardValueMAX, FrameTree(board, player, max_depth))

RunCreateCheckmateTreeWithValue(board, value, player, rule) ==
    Enter([fn |-> "create_checkmate_tree_with_value", board |-> board,
           value |-> value, player |-> player, rule |-> rule],
          value, FrameWithValue(board, value, player))

RunCompareBoardValue(board, value, player, rule) ==
    Enter([fn |-> "compare_board_value", board |-> board, value |-> value,
           player |-> player, rule |-> rule],
          value, FrameCmp(board, value, player))

RunEvaluateBoard(board, player, search_depth, rule) ==
    Enter([fn |-> "evaluate_board", board |-> board, player |-> player,
           search_depth |-> search_depth, rule |-> rule],
          BoardValueMAX, FrameEvaluate(board, player, search_depth))

RunFindBestActions(board, player, search_depth, rule) ==
    Enter([fn |-> "find_best_actions", board |-> board, player |-> player,
           search_depth |-> search_depth, rule |-> rule],
          BoardValueMAX, FrameBestActions(board, player, search_depth))

\* One step of the running frame.
Step ==
    /\ pc = "run"
    /\ LET top == Len(stack)
           e == step(stack[top], ret, args.rule)
       IN CASE e.op = "continue" ->
                 /\ stack' = [stack EXCEPT ![top] = e.frame]
                 /\ ret' = Running
                 /\ pc' = "run"
            [] e.op = "call" ->
                 /\ stack' = Append([stack EXCEPT ![top] = e.frame], e.callee)
                 /\ ret' = Running
                 /\ pc' = "run"
            [] e.op = "return" ->
                 /\ stack' = SubSeq(stack, 1, top - 1)
                 /\ ret' = IF top = 1 THEN finish(args.fn, e.result) ELSE e.result
                 /\ pc' = IF top = 1 THEN "done" ELSE "run"
            [] e.op = "panic" ->
                 /\ stack' = << >>
                 /\ ret' = Panicked
                 /\ pc' = "done"
    /\ UNCHANGED <<legal, args, game>>

NextRun ==
    \/ \E b \in Boards, t \in AllBoards :
          SumLen(Boards) < RunMaxEdges /\ AddAction(b, t)
    \/ \E board \in ValidBoards, player \in Colors, d \in Depths, rule \in ValidRules :
          RunCreateCheckmateTree(board, player, d, rule)
    \/ \E board \in ValidBoards, value \in ValidValues, player \in Colors,
          rule \in ValidRules :
          RunCreateCheckmateTreeWithValue(board, value, player, rule)
    \/ \E board \in ValidBoards, value \in ValidValues, player \in Colors,
          rule \in ValidRules :
          RunCompareBoardValue(board, value, player, rule)
    \/ \E board \in ValidBoards, player \in Colors, d \in Depths, rule \in ValidRules :
          RunEvaluateBoard(board, player, d, rule)
    \/ \E board \in ValidBoards, player \in Colors, d \in Depths, rule \in ValidRules :
          RunFindBestActions(board, player, d, rule)
    \/ Step

\* A started call keeps taking steps.
SpecRun == Init /\ [][NextRun]_vars /\ WF_vars(Step)

\* The entry point called as one step returns what the stepwise run returns.
CallOf(a) ==
    CASE a.fn = "create_checkmate_tree" ->
           create_checkmate_tree(a.board, a.player, a.max_depth, a.rule)
      [] a.fn = "create_checkmate_tree_with_value" ->
           create_checkmate_tree_with_value(a.board, a.value, a.player, a.rule)
      [] a.fn = "compare_board_value" ->
           compare_board_value(a.board, a.value, a.player, a.rule)
      [] a.fn = "evaluate_board" ->
           evaluate_board(a.board, a.player, a.search_depth, a.rule)
      [] a.fn = "find_best_actions" ->
           find_best_actions(a.board, a.player, a.search_depth, a.rule)

StepwiseAgrees == pc = "done" => ret = CallOf(args)

\* Number of recursive calls below the first frame of the running search.
Plies == Len(stack) - 1

\* Along the stack each recursive call has a smaller budget than its caller:
\* max_depth - 1 for create_checkmate_tree_unchecked, the decremented value
\* for the two searches with a value, and no call is made at Win(1).
BudgetDecreases ==
    \A k \in 1..(Len(stack) - 1) :
        LET caller == stack[k]
            callee == stack[k + 1]
        IN caller.fn = callee.fn =>
              IF caller.fn = "create_checkmate_tree_unchecked"
              THEN caller.max_depth >= 1 /\ callee.max_depth = caller.max_depth - 1
              ELSE /\ caller.value # BoardValueMAX
                   /\ kind(callee.value) \in {"Win", "Lose"}
                   /\ callee.value.value[1] = caller.value.value[1] - 1

PliesBounded ==
    pc = "run" =>
        /\ BudgetDecreases
        /\ args.fn = "create_checkmate_tree" => Plies <= args.max_depth
        /\ args.fn \in {"compare_board_value", "create_checkmate_tree_with_value"} =>
              Plies <= args.value.value[1] - 1
        \* one frame of evaluate_board_unchecked, then a comparison of depth <= n
        /\ args.fn = "evaluate_board" => Plies <= args.search_depth
        \* find_best_actions_unchecked, then evaluate_board_unchecked or a
        \* comparison with a value of at most search_depth + 1
        /\ args.fn = "find_best_actions" => Plies <= args.search_depth + 1

\* C19: every call of an entry point returns, also on move tables with
\* cycles; create_checkmate_tree recurses at most max_depth plies, the two
\* searches with a value n at most n - 1 plies, the value falling by one per
\* ply and no recursion at Win(1); evaluate_board and find_best_actions make
\* finitely many comparisons.
C19_Terminates == []PliesBounded /\ ((pc = "run") ~> (pc = "done"))

\* Some board is produced again by actions from itself.
RECURSIVE Reaches(_, _, _)
Reaches(from, to, n) ==
    /\ n > 0
    /\ \E a \in Range(legal_actions(from, "Red")) :
          a = to \/ Reaches(a, to, n - 1)

C19_Witness ==
    /\ pc = "run"
    /\ args.fn = "compare_board_value"
    /\ Reaches(RootBoard, RootBoard, NBoards)
    /\ Plies = args.value.value[1] - 1
    /\ Plies >= 2
    /\ stack[Len(stack)].board = stack[1].board

\* ------------------------------------------------------------------------
\*  GameRule, GameStatus and Game (game.rs)
\* ------------------------------------------------------------------------
\* An action of the game: its player, its kind and the board it produces.
\* Game singles out Remove only; Put is treated as Move is, so Move stands
\* for both.
ActionKinds == {"Move", "Remove"}

Action(player, action_kind, to) ==
    [player |-> player, kind |-> action_kind, to |-> to]

\* Board::check_action: the action is one the move generator yields.
Board_check_action(board, action) ==
    action.to \in Range(legal_actions(board, action.player))

GameRule_new(is_remove_accepted) ==
    [is_remove_accepted |-> is_remove_accepted,
     first_player |-> "Red",
     suicide_atk_judge |-> "NextWins",
     initial_board |-> RootBoard]

with_is_remove_accepted(rule, is_remove_accepted) ==
    [rule EXCEPT !.is_remove_accepted = is_remove_accepted]

with_first_player(rule, first_player) == [rule EXCEPT !.first_player = first_player]

with_suicide_atk_judge(rule, judge) == [rule EXCEPT !.suicide_atk_judge = judge]

\* with_initial_board storing any board.
with_initial_board_unchecked(rule, initial_board) ==
    Ok([rule EXCEPT !.initial_board = initial_board])

with_initial_board(rule, initial_board) ==
    IF surrounded_status(initial_board) # SurNone THEN Err("InitialBoardError")
    ELSE Ok([rule EXCEPT !.initial_board = initial_board])

Ongoing == [kind |-> "Ongoing"]
Win(player) == [kind |-> "Win", player |-> player]
Draw == [kind |-> "Draw"]

Game_new_with_rule(rule) ==
    [board |-> rule.initial_board,
     player |-> rule.first_player,
     status |-> Ongoing,
     rule |-> rule]

Game_new(is_remove_accepted) == Game_new_with_rule(GameRule_new(is_remove_accepted))

Game_reset(g) == Game_new_with_rule(g.rule)

is_ongoing(g) == g.status = Ongoing

winner(g) == IF g.status.kind = "Win" THEN Some(g.status.player) ELSE None

OkUnit == [tag |-> "Ok"]

\* check_action without the test of the action's player.
check_action_any_player(g, action) ==
    IF ~g.rule.is_remove_accepted /\ action.kind = "Remove"
    THEN Err("ProhibitedRemove")
    ELSE IF ~Board_check_action(g.board, action) THEN Err("BoardError")
    ELSE OkUnit

check_action(g, action) ==
    IF g.player # action.player THEN Err("PlayerMismatch")
    ELSE IF ~g.rule.is_remove_accepted /\ action.kind = "Remove"
    THEN Err("ProhibitedRemove")
    ELSE IF ~Board_check_action(g.board, action) THEN Err("BoardError")
    ELSE OkUnit

\* The judgement passing the turn whatever the board.
judge_game_end_pass(g) == [g EXCEPT !.player = Toggle(g.player)]

\* The judgement after the action: the status and next player of g on its
\* new board.
judge_game_end(g) ==
    LET sur == surrounded_status(g.board) IN
    CASE sur = SurBoth ->
           [g EXCEPT !.status =
               CASE g.rule.suicide_atk_judge = "LastWins" -> Win(g.player)
                 [] g.rule.suicide_atk_judge = "NextWins" -> Win(Toggle(g.player))
                 [] OTHER -> Draw]
      [] sur.kind = "OneSide" -> [g EXCEPT !.status = Win(Toggle(sur.player))]
      [] OTHER -> [g EXCEPT !.player = Toggle(g.player)]

perform(g, action) ==
    IF ~is_ongoing(g) THEN [game |-> g, result |-> Err("GameFinished")]
    ELSE
      LET c == check_action(g, action) IN
      IF c.tag = "Err" THEN [game |-> g, result |-> c]
      ELSE [game |-> judge_game_end(
                        [g EXCEPT !.board = perform_unchecked_copied(@, action.to)]),
            result |-> OkUnit]

\* The rule under construction is kept in args.
NewRule(is_remove_accepted) ==
    /\ pc = "build"
    /\ pc' = "rule"
    /\ args' = [fn |-> "GameRule::new", rule |-> GameRule_new(is_remove_accepted)]
    /\ ret' = OkUnit
    /\ UNCHANGED <<legal, stack, game>>

WithIsRemoveAccepted(is_remove_accepted) ==
    /\ pc = "rule"
    /\ args' = [fn |-> "with_is_remove_accepted",
                rule |-> with_is_remove_accepted(args.rule, is_remove_accepted)]
    /\ ret' = OkUnit
    /\ UNCHANGED <<legal, pc, stack, game>>

WithFirstPlayer(first_player) ==
    /\ pc = "rule"
    /\ args' = [fn |-> "with_first_player",
                rule |-> with_first_player(args.rule, first_player)]
    /\ ret' = OkUnit
    /\ UNCHANGED <<legal, pc, stack, game>>

WithSuicideAtkJudge(judge) ==
    /\ pc = "rule"
    /\ args' = [fn |-> "with_suicide_atk_judge",
                rule |-> with_suicide_atk_judge(args.rule, judge)]
    /\ ret' = OkUnit
    /\ UNCHANGED <<legal, pc, stack, game>>

\* On an error the caller is left with the rule it had.
WithInitialBoard(initial_board) ==
    /\ pc = "rule"
    /\ LET r == with_initial_board(args.rule, initial_board)
       IN IF r.tag = "Ok"
          THEN args' = [fn |-> "with_initial_board", rule |-> r.val] /\ ret' = OkUnit
          ELSE args' = [fn |-> "with_initial_board", rule |-> args.rule] /\ ret' = r
    /\ UNCHANGED <<legal, pc, stack, game>>

NewGame(is_remove_accepted) ==
    /\ pc = "build"
    /\ pc' = "play"
    /\ game' = Game_new(is_remove_accepted)
    /\ args' = [fn |-> "Game::new"]
    /\ ret' = OkUnit
    /\ UNCHANGED <<legal, stack>>

NewWithRule ==
    /\ pc = "rule"
    /\ pc' = "play"
    /\ game' = Game_new_with_rule(args.rule)
    /\ args' = [fn |-> "Game::new_with_rule"]
    /\ ret' = OkUnit
    /\ UNCHANGED <<legal, stack>>

\* args keeps the action and the game as it was before the call.
Perform(action) ==
    /\ pc = "play"
    /\ LET r == perform(game, action)
       IN game' = r.game /\ ret' = r.result
    /\ args' = [fn |-> "perform", action |-> action, before |-> game]
    /\ UNCHANGED <<legal, pc, stack>>

Reset ==
    /\ pc = "play"
    /\ game' = Game_reset(game)
    /\ args' = [fn |-> "reset"]
    /\ ret' = OkUnit
    /\ UNCHANGED <<legal, pc, stack>>

Actions == {Action(p, k, t) : p \in Colors, k \in ActionKinds, t \in AllBoards}

NextGame ==
    \/ \E b \in Boards, t \in AllBoards :
          SumLen(Boards) < GameMaxEdges /\ AddAction(b, t)
    \/ \E b \in BOOLEAN : NewRule(b)
    \/ \E b \in BOOLEAN : WithIsRemoveAccepted(b)
    \/ \E p \in Colors : WithFirstPlayer(p)
    \/ \E j \in Judges : WithSuicideAtkJudge(j)
    \/ \E board \in AllBoards : WithInitialBoard(board)
    \/ \E b \in BOOLEAN : NewGame(b)
    \/ NewWithRule
    \/ \E action \in Actions : Perform(action)
    \/ Reset

SpecGame == Init /\ [][NextGame]_vars

Performed == pc = "play" /\ args.fn = "perform"

\* C21: perform returns an error and leaves the Game unchanged when the game
\* is finished (GameFinished), when the action's player is not the next
\* player (PlayerMismatch), when the action is a Remove the rule prohibits
\* (ProhibitedRemove), or when the action is illegal on the board; so a game
\* whose status is not Ongoing is changed by no perform.
C21_PerformErrorsLeaveGame ==
    Performed =>
        LET g == args.before
            action == args.action
            game_over == g.status # Ongoing
            mismatch == action.player # g.player
            prohibited == action.kind = "Remove" /\ ~g.rule.is_remove_accepted
            illegal == action.to \notin Range(legal_actions(g.board, action.player))
        IN /\ (game_over \/ mismatch \/ prohibited \/ illegal) =>
                 ret.tag = "Err" /\ game = g
           /\ game_over => ret = Err("GameFinished")
           /\ (~game_over /\ mismatch) => ret = Err("PlayerMismatch")
           /\ (~game_over /\ ~mismatch /\ prohibited) => ret = Err("ProhibitedRemove")
           /\ (~game_over /\ ~mismatch /\ ~prohibited /\ illegal) =>
                 ret = Err("BoardError")
           /\ ret.tag = "Err" => game = g

C21_Witness ==
    /\ Performed
    /\ args.before.status = Win("Red")
    /\ args.action.player = args.before.player
    /\ args.action.kind = "Move"
    /\ ret = Err("GameFinished")
    /\ game = args.before

\* C25: after a successful perform by player p, with both bosses surrounded
\* the status is Win(p) under LastWins, Win(opponent of p) under NextWins
\* and Draw under Draw; with one side q surrounded it is Win(opponent of q);
\* in these cases the next player stays p; with nobody surrounded the status
\* stays Ongoing and the next player becomes the opponent of p.
C25_StatusAfterPerform ==
    (Performed /\ ret.tag = "Ok") =>
        LET p == args.before.player
            sur == surrounded_status(game.board)
            judge == game.rule.suicide_atk_judge
        IN /\ args.action.player = p
           /\ args.before.status = Ongoing
           /\ game.board = perform_unchecked_copied(args.before.board, args.action.to)
           /\ game.rule = args.before.rule
           /\ (sur = SurBoth /\ judge = "LastWins") => game.status = Win(p)
           /\ (sur = SurBoth /\ judge = "NextWins") => game.status = Win(Toggle(p))
           /\ (sur = SurBoth /\ judge = "Draw") => game.status = Draw
           /\ \A q \in Colors : sur = OneSide(q) => game.status = Win(Toggle(q))
           /\ sur # SurNone => game.player = p
           /\ sur = SurNone => game.status = Ongoing /\ game.player = Toggle(p)

C25_Witness ==
    /\ Performed
    /\ ret.tag = "Ok"
    /\ args.before.player = "Green"
    /\ surrounded_status(game.board) = SurBoth
    /\ game.rule.suicide_atk_judge = "LastWins"
    /\ game.status = Win("Green")
    /\ game.player = "Green"

\* C30: in every Game made by Game::new or by Game::new_with_rule from a rule
\* of GameRule::new and the with_* builders, after any performs and resets,
\* the status is Ongoing iff nobody is surrounded on the board, and winner()
\* is Some exactly when the status is Win.
C30_StatusMatchesBoard ==
    pc = "play" =>
        /\ game.status = Ongoing <=> surrounded_status(game.board) = SurNone
        /\ is_ongoing(game) <=> surrounded_status(game.board) = SurNone
        /\ winner(game) # None <=> game.status \in {Win(q) : q \in Colors}
        /\ \A q \in Colors : game.status = Win(q) => winner(game) = Some(q)

C30_Witness ==
    /\ Performed
    /\ ret.tag = "Ok"
    /\ game.rule.initial_board # RootBoard
    /\ game.rule.first_player = "Green"
    /\ game.status = Win("Red")
    /\ winner(game) = Some("Red")
    /\ surrounded_status(game.board) = OneSide("Green")

\* ------------------------------------------------------------------------
\*  Properties of the search, continued
\* ------------------------------------------------------------------------
\* The greatest value of a set of pairwise comparable values.
MaxOf(S) == CHOOSE v \in S : \A w \in S : w = v \/ lt(w, v)

RECURSIVE Negamax(_, _, _, _, _)
\* The tree is the depth-bounded negamax tree of (board, player) at depth d.
Negamax(tree, board, player, d, rule) ==
    IF d = 0
    THEN tree.value = BoardValue(None) /\ DOMAIN tree.children = {}
    ELSE
      LET items == NextBoardIter(board, player, rule)
          unknowns == {i \in 1..Len(items) : items[i].status = "Unknown"}
          sub(i) == create_checkmate_tree_unchecked(
                       items[i].next_board, Toggle(player), d - 1, rule).tree
          best == MaxOf({LoseV(2)} \cup {increment(sub(i).value) : i \in unknowns})
          attain == {i \in unknowns : increment(sub(i).value) = best}
      IN IF \E i \in 1..Len(items) : items[i].status = "Win"
         THEN tree.value = WinV(1)
         ELSE /\ tree.value = best
              /\ DOMAIN tree.children = {items[i].action : i \in attain}
              /\ \A i \in attain :
                    /\ tree.children[items[i].action] = sub(i)
                    /\ Negamax(sub(i), items[i].next_board, Toggle(player), d - 1, rule)

\* C22: create_checkmate_tree is depth-bounded negamax: at depth 0 the node is
\* childless with value Unknown; at depth d >= 1 the root is Win(1) when some
\* action wins at once, and otherwise its value is the maximum of Lose(2) and
\* the incremented values of the depth d-1 trees of the boards the Unknown
\* actions produce (opponent to move), its children being exactly the Unknown
\* actions that attain the maximum.
C22_Negamax ==
    (Called("create_checkmate_tree") /\ ret.tag = "Ok") =>
        Negamax(ret.val, args.board, args.player, args.max_depth, args.rule)

\* Two Unknown actions were searched; one leads to a forced win in three
\* plies and is the only child, the other is worse and was dropped.
C22_Witness ==
    /\ Called("create_checkmate_tree")
    /\ ret.tag = "Ok"
    /\ args.max_depth >= 2
    /\ ret.val.value = WinV(3)
    /\ Cardinality(DOMAIN ret.val.children) = 1
    /\ LET items == NextBoardIter(args.board, args.player, args.rule)
       IN Len(items) = 2 /\ \A i \in 1..2 : items[i].status = "Unknown"

\* ------------------------------------------------------------------------
\*  The two searches with a value, run step by step
\* ------------------------------------------------------------------------
CompareMaxEdges == 3

NextCompare ==
    \/ \E b \in Boards, t \in AllBoards :
          SumLen(Boards) < CompareMaxEdges /\ AddAction(b, t)
    \/ \E board \in ValidBoards, value \in ValidValues, player \in Colors,
          rule \in ValidRules :
          RunCreateCheckmateTreeWithValue(board, value, player, rule)
    \/ \E board \in ValidBoards, value \in ValidValues, player \in Colors,
          rule \in ValidRules :
          RunCompareBoardValue(board, value, player, rule)
    \/ Step

SpecCompare == Init /\ [][NextCompare]_vars

\* The ordering a finished call of one of the two searches stands for.
Verdict(r) ==
    IF r.tag = "Err" THEN r.ord
    ELSE IF args.fn = "compare_board_value" THEN r.ordering ELSE "Equal"

HasWin(board, player, rule) ==
    LET items == NextBoardIter(board, player, rule)
    IN \E i \in 1..Len(items) : items[i].status = "Win"

\* C23: when the mover has an immediately winning action, compare_board_value
\* and the verdict of create_checkmate_tree_with_value are Equal for the
\* claim Win(1) and Greater for every other valid claim, whatever the other
\* actions are and wherever the winning action stands in the enumeration;
\* when the mover has none, the claim Win(1) gets Less, and the search for
\* the claim Win(1) never calls itself on a successor.
C23_ImmediateWin ==
    LET has_win == HasWin(args.board, args.player, args.rule) IN
    /\ (pc = "done" /\ ret.tag # "Panic") =>
          /\ has_win =>
                Verdict(ret) = IF args.value = BoardValueMAX THEN "Equal" ELSE "Greater"
          /\ (~has_win /\ args.value = BoardValueMAX) => Verdict(ret) = "Less"
    /\ (pc = "run" /\ args.value = BoardValueMAX) => Len(stack) = 1

\* The winning action stands second, behind an action that was searched and
\* did not settle the comparison.
C23_Witness ==
    /\ pc = "done"
    /\ args.fn = "compare_board_value"
    /\ args.value = LoseV(2)
    /\ ret = OkOrdering("Greater")
    /\ LET items == NextBoardIter(args.board, args.player, args.rule)
       IN /\ Len(items) = 2
          /\ items[1].status = "Unknown"
          /\ items[2].status = "Win"
          /\ compare_board_value_unchecked(
                items[1].next_board, WinV(1), Toggle(args.player), args.rule) = "Equal"

\* C24: when evaluate_board at depth d >= 1 gives an interval that is not a
\* single value, find_best_actions returns exactly the Unknown actions whose
\* board, with the opponent to move, compares not Greater against the
\* decremented left end of the interval; no action wins at once in this case
\* and the actions that lose at once are left out.
C24_BestActionsInexact ==
    (Called("find_best_actions") /\ args.search_depth >= 1) =>
        LET ev == evaluate_board(args.board, args.player, args.search_depth, args.rule)
            items == NextBoardIter(args.board, args.player, args.rule)
        IN (ev.tag = "Ok" /\ single(ev.val) = None) =>
              LET bound == try_decrement(ev.val.left)
                  cmp(k) == compare_board_value(items[k].next_board, bound[1],
                                                Toggle(args.player), args.rule)
              IN /\ bound # None
                 /\ ret.tag = "Ok"
                 /\ ~HasWin(args.board, args.player, args.rule)
                 /\ Range(ret.val) =
                       {items[k].action : k \in
                          {j \in DOMAIN items :
                             /\ items[j].status = "Unknown"
                             /\ cmp(j) \in {OkOrdering("Less"), OkOrdering("Equal")}}}
                 /\ Len(ret.val) = Cardinality(Range(ret.val))

\* Of two Unknown actions one is above the bound and is left out, the other
\* compares Less against it and is the one returned.
C24_Witness ==
    /\ Called("find_best_actions")
    /\ args.search_depth >= 1
    /\ LET ev == evaluate_board(args.board, args.player, args.search_depth, args.rule)
           items == NextBoardIter(args.board, args.player, args.rule)
       IN /\ ev.tag = "Ok"
          /\ single(ev.val) = None
          /\ ret.tag = "Ok"
          /\ Len(ret.val) = 1
          /\ Cardinality({k \in DOMAIN items : items[k].status = "Unknown"}) = 2
          /\ \E k \in DOMAIN items :
                /\ items[k].action \in Range(ret.val)
                /\ compare_board_value(items[k].next_board, try_decrement(ev.val.left)[1],
                                       Toggle(args.player), args.rule) = OkOrdering("Less")

\* C26: compare_board_value behaves as a comparison against one true value:
\* for a fixed board, mover and rule, a claim that gets Equal is the only one,
\* every smaller claim gets Greater and every larger claim gets Less; and no
\* claim gets Greater while a smaller claim gets Less.
C26_SingleTrueValue ==
    (Called("compare_board_value") /\ ret.tag = "Ok") =>
        \A v2 \in ValidValues :
            LET c2 == compare_board_value(args.board, v2, args.player, args.rule)
            IN /\ c2.tag = "Ok"
               /\ (ret.ordering = "Equal" /\ v2 # args.value) => c2.ordering # "Equal"
               /\ (ret.ordering = "Equal" /\ lt(v2, args.value)) => c2.ordering = "Greater"
               /\ (ret.ordering = "Equal" /\ gt(v2, args.value)) => c2.ordering = "Less"
               /\ (ret.ordering = "Less" /\ gt(v2, args.value)) => c2.ordering # "Greater"

\* The board is a forced win in three turns: the claim Win(3) gets Equal, a
\* smaller claim Greater and the larger claim Win(1) Less.
C26_Witness ==
    /\ Called("compare_board_value")
    /\ args.value = WinV(3)
    /\ ret = OkOrdering("Equal")
    /\ compare_board_value(args.board, LoseV(4), args.player, args.rule)
          = OkOrdering("Greater")
    /\ compare_board_value(args.board, WinV(1), args.player, args.rule)
          = OkOrdering("Less")

RECURSIVE FollowsClaim(_, _, _)
\* Every node carries the claim decremented once per ply and the mover
\* toggled once per ply; the childless nodes are the nodes with value Win(1).
FollowsClaim(t, value, player) ==
    /\ t.value = value
    /\ t.player = player
    /\ (DOMAIN t.children = {}) <=> (value = WinV(1))
    /\ \A a \in DOMAIN t.children :
          /\ try_decrement(value) # None
          /\ FollowsClaim(t.children[a], try_decrement(value)[1], Toggle(player))

RECURSIVE PathLengths(_)
\* The numbers of edges of the paths from the root to the childless nodes.
PathLengths(t) ==
    IF DOMAIN t.children = {} THEN {0}
    ELSE UNION {{n + 1 : n \in PathLengths(t.children[a])} : a \in DOMAIN t.children}

\* C27: in every tree create_checkmate_tree_with_value returns for a claim
\* of n turns, the node k plies below the root has the claim decremented k
\* times as value and the root mover toggled k times as mover; the leaves
\* are exactly the nodes with value Win(1), every other node has a child, and
\* every path from the root to a leaf has n - 1 edges.
C27_TreeFollowsClaim ==
    (Called("create_checkmate_tree_with_value") /\ ret.tag = "Ok") =>
        /\ FollowsClaim(ret.val, args.value, args.player)
        /\ PathLengths(ret.val) = {args.value.value[1] - 1}

\* A forced win in three turns: of the two actions searched at the root one
\* is kept, its node has value Lose(2) and its children are Win(1) leaves.
C27_Witness ==
    /\ Called("create_checkmate_tree_with_value")
    /\ ret.tag = "Ok"
    /\ args.value = WinV(3)
    /\ Len(NextBoardIter(args.board, args.player, args.rule)) = 2
    /\ Cardinality(DOMAIN ret.val.children) = 1
    /\ \A a \in DOMAIN ret.val.children :
          /\ ret.val.children[a].value = LoseV(2)
          /\ ret.val.children[a].player = Toggle(args.player)
          /\ \E b \in DOMAIN ret.val.children[a].children :
                ret.val.children[a].children[b].value = WinV(1)

\* C28: for a validated board on which the mover has a legal action, and a
\* search depth d >= 1, find_best_actions returns a non-empty list.
C28_BestActionsNonEmpty ==
    (/\ Called("find_best_actions")
     /\ args.search_depth >= 1
     /\ Len(legal_actions(args.board, args.player)) >= 1)
    => (ret.tag = "Ok" /\ Len(ret.val) >= 1)

\* On move tables where every board leaves its mover an action that does
\* not lose at once, the list is non-empty.
NonEmptyUnlessStuck ==
    (/\ Called("find_best_actions")
     /\ args.search_depth >= 1
     /\ NoStuck)
    => (ret.tag = "Ok" /\ Len(ret.val) >= 1)

\* Such a table on which the value was not found exactly and the search
\* looked at three boards.
NonEmptyReached ==
    /\ Called("find_best_actions")
    /\ args.search_depth >= 2
    /\ NoStuck
    /\ Cardinality(Known) = 3
    /\ ret.tag = "Ok"
    /\ Len(ret.val) >= 1

\* ------------------------------------------------------------------------
\*  The order in which the legal actions are enumerated
\* ------------------------------------------------------------------------
OrderMaxEdges == 3

\* The action container of board b holds the same actions with the i-th and
\* the next one in the other order.  The call made before keeps its
\* arguments and its result.
Reorder(b, i) ==
    /\ pc = "done"
    /\ i + 1 <= Len(legal[b])
    /\ legal' = [legal EXCEPT ![b] = [@ EXCEPT ![i] = legal[b][i + 1],
                                               ![i + 1] = legal[b][i]]]
    /\ UNCHANGED <<pc, args, ret, stack, game>>

NextOrder ==
    \/ \E b \in Boards, t \in AllBoards :
          SumLen(Boards) < OrderMaxEdges /\ AddAction(b, t)
    \/ \E board \in ValidBoards, player \in Colors, d \in Depths, rule \in ValidRules :
          CallCreateCheckmateTree(board, player, d, rule)
    \/ \E board \in ValidBoards, value \in ValidValues, player \in Colors,
          rule \in ValidRules :
          CallCreateCheckmateTreeWithValue(board, value, player, rule)
    \/ \E board \in ValidBoards, value \in ValidValues, player \in Colors,
          rule \in ValidRules :
          CallCompareBoardValue(board, value, player, rule)
    \/ \E board \in ValidBoards, player \in Colors, d \in Depths, rule \in ValidRules :
          CallEvaluateBoard(board, player, d, rule)
    \/ \E board \in ValidBoards, player \in Colors, d \in Depths, rule \in ValidRules :
          CallFindBestActions(board, player, d, rule)
    \/ \E b \in Boards, i \in 1..MaxActions : Reorder(b, i)

SpecOrder == Init /\ [][NextOrder]_vars

\* Two results of one entry point that the claim counts as the same.
SameResult(fn, r1, r2) ==
    /\ r1.tag = r2.tag
    /\ r1.tag = "Err" => r1 = r2
    /\ r1.tag = "Ok" =>
          CASE fn \in {"create_checkmate_tree", "create_checkmate_tree_with_value"} ->
                 SameShape(r1.val, r2.val)
            [] fn = "compare_board_value" -> r1.ordering = r2.ordering
            [] fn = "evaluate_board" -> r1.val = r2.val
            [] fn = "find_best_actions" -> Range(r1.val) = Range(r2.val)

\* C29: the results do not depend on the order in which the legal actions
\* are enumerated: the result of a call made under one order is the result
\* the same call has under every other order of the same actions: the same
\* tree (values and child actions at every node), the same Ordering, the same
\* interval, the same set of actions.
C29_OrderIndependent ==
    pc = "done" => SameResult(args.fn, ret, CallOf(args))

\* The two actions of the root now stand in the other order: the same call
\* returns the list in the other order, with the same actions.
C29_Witness ==
    /\ Called("find_best_actions")
    /\ args.search_depth >= 1
    /\ ret.tag = "Ok"
    /\ Len(ret.val) = 2
    /\ CallOf(args).val # ret.val
    /\ Range(CallOf(args).val) = Range(ret.val)

====
